---- MODULE Spec2Model ----
(***************************************************************************)
(* A model of the quill / soliloquy text-adventure engine: the condition   *)
(* check, the world model (Scene, Item, Character, Player), the command    *)
(* parser and the engine's read-parse-dispatch loop.                       *)
(*                                                                         *)
(* Python values are modelled as follows.  A str is a TLA+ string, taken   *)
(* apart with Len / SubSeq / \o.  A dict whose iteration order matters is  *)
(* a sequence of entries [k |-> key, v |-> value] in insertion order.  A   *)
(* dict with optional keys (a condition, a command, an event) is a record  *)
(* whose DOMAIN holds exactly the keys present.  A list is a sequence, a   *)
(* set is a set.                                                           *)
(***************************************************************************)
EXTENDS Integers, Sequences, FiniteSets, TLC

VARIABLES
    game_dir,           \* what load_game finds in the game directory
    variant,            \* which engine/parser pair runs: "quill" or "soliloquy"
    parser_type,        \* CommandParser.parser_type after construction
    session,            \* "idle", "running", "terminated" or "refused"
    game_running,       \* engine.game_running
    current_scene,      \* id of engine.current_scene
    inventory,          \* player.inventory (list of item ids)
    flags,              \* player.flags (set)
    scene_items,        \* scene id -> keys of Scene.items, in dict order
    revealed_objects,   \* scene id -> Scene.revealed_objects
    turn,               \* what the last turn of the loop read, parsed and rendered
    args,               \* arguments of the pure function under test
    ret,                \* what the functions under test returned
    spinner             \* the Spinner's fields, its threads and the loop's position

vars == <<game_dir, variant, parser_type, session, game_running, current_scene, inventory,
          flags, scene_items, revealed_objects, turn, args, ret, spinner>>

\* the game state: current scene, inventory, flags, and each scene's item map
\* and revealed_objects
game_state == <<current_scene, inventory, flags, scene_items, revealed_objects>>

-----------------------------------------------------------------------------
(* Python built-ins *)

\* list -> set, as set(list) does
Range(s) == {s[i] : i \in 1..Len(s)}

\* item in list
InList(x, s) == \E i \in 1..Len(s) : s[i] = x

\* dict.get(key, default) on a record holding the keys present
Get(d, key, default) == IF key \in DOMAIN d THEN d[key] ELSE default

\* the empty dict {}
EmptyDict == [x \in {} |-> x]

\* s[i] of a str (1-based)
Char(s, i) == SubSeq(s, i, i)

UpperLetters == "ABCDEFGHIJKLMNOPQRSTUVWXYZ"
LowerLetters == "abcdefghijklmnopqrstuvwxyz"

\* the lower-case letter of each upper-case letter
ToLower ==
    [c \in {Char(UpperLetters, i) : i \in 1..26} |->
        Char(LowerLetters, CHOOSE i \in 1..26 : Char(UpperLetters, i) = c)]

UpperSet == DOMAIN ToLower

LowerChar(c) == IF c \in UpperSet THEN ToLower[c] ELSE c

RECURSIVE LowerEach(_)
LowerEach(s) == IF s = "" THEN "" ELSE LowerChar(Head(s)) \o LowerEach(Tail(s))

\* str.lower(): a string without upper-case letters is its own lower-case form
Lower(s) ==
    IF \A i \in 1..Len(s) : Char(s, i) \notin UpperSet THEN s ELSE LowerEach(s)

IsSpace(c) == c = " "

\* str.strip()
RECURSIVE LStrip(_)
LStrip(s) == IF s # "" /\ IsSpace(Head(s)) THEN LStrip(Tail(s)) ELSE s

RECURSIVE RStrip(_)
RStrip(s) ==
    IF s # "" /\ IsSpace(Char(s, Len(s))) THEN RStrip(SubSeq(s, 1, Len(s) - 1)) ELSE s

Strip(s) == RStrip(LStrip(s))

\* the first word of a string that starts with a non-space character
RECURSIVE FirstWord(_)
FirstWord(s) ==
    IF s = "" \/ IsSpace(Head(s)) THEN "" ELSE Head(s) \o FirstWord(Tail(s))

\* str.split(): the maximal runs of non-space characters
RECURSIVE Split(_)
Split(s) ==
    LET t == LStrip(s)
        w == FirstWord(t)
    IN  IF t = "" THEN <<>> ELSE <<w>> \o Split(SubSeq(t, Len(w) + 1, Len(t)))

\* " ".join(words)
RECURSIVE Join(_)
Join(words) ==
    IF words = <<>> THEN ""
    ELSE IF Len(words) = 1 THEN words[1]
    ELSE words[1] \o " " \o Join(Tail(words))

\* sub in s, for strings
Contains(sub, s) ==
    \E i \in 1..(Len(s) - Len(sub) + 1) : SubSeq(s, i, i + Len(sub) - 1) = sub

-----------------------------------------------------------------------------
(* Ordered dicts: sequences of entries [k |-> key, v |-> value] *)

Keys(d) == [i \in 1..Len(d) |-> d[i].k]

HasKey(d, key) == \E i \in 1..Len(d) : d[i].k = key

\* d[key] for a key that is present
Lookup(d, key) == d[CHOOSE i \in 1..Len(d) : d[i].k = key].v

-----------------------------------------------------------------------------
(* The condition check: three copies in the sources *)

\* a variant of the scene's check that forgets the forbidden flags
Scene_check_condition_NoLacks(condition, player_flags) ==
    IF DOMAIN condition = {} THEN TRUE
    ELSE LET has_flags == Range(Get(condition, "has_flags", <<>>))
         IN  ~ (has_flags # {} /\ ~ (has_flags \subseteq player_flags))

\* Scene._check_condition
Scene_check_condition(condition, player_flags) ==
    IF DOMAIN condition = {} THEN TRUE
    ELSE LET has_flags == Range(Get(condition, "has_flags", <<>>))
             lacks_flags == Range(Get(condition, "lacks_flags", <<>>))
         IN  IF has_flags # {} /\ ~ (has_flags \subseteq player_flags) THEN FALSE
             ELSE IF lacks_flags # {} /\ (lacks_flags \cap player_flags) # {} THEN FALSE
             ELSE TRUE

\* Character._check_condition
Character_check_condition(condition, player_flags) ==
    IF DOMAIN condition = {} THEN TRUE
    ELSE LET has_flags == Range(Get(condition, "has_flags", <<>>))
             lacks_flags == Range(Get(condition, "lacks_flags", <<>>))
         IN  IF has_flags # {} /\ ~ (has_flags \subseteq player_flags) THEN FALSE
             ELSE IF lacks_flags # {} /\ (lacks_flags \cap player_flags) # {} THEN FALSE
             ELSE TRUE

\* QuillEngine._check_event_condition
Engine_check_event_condition(condition, player_flags) ==
    IF "has_flags" \in DOMAIN condition
       /\ ~ (Range(condition["has_flags"]) \subseteq player_flags)
    THEN FALSE
    ELSE IF "lacks_flags" \in DOMAIN condition
            /\ (Range(condition["lacks_flags"]) \cap player_flags) # {}
    THEN FALSE
    ELSE TRUE

-----------------------------------------------------------------------------
(* The game data the loader supplies: GameLoader.load_scenes, load_items,   *)
(* load_characters and game.yaml.  One small world with a locked exit, a    *)
(* hidden exit, a dangling exit, locked and untakeable items, events and a  *)
(* character with a two-option dialogue.  Every exit and object is in the   *)
(* dict format; a character's presence is either the legacy bool, written   *)
(* [bool |-> b], or a dict that may hold a condition.                       *)

HallData ==
    [ name |-> "Hall",
      description |-> "A dusty hall.",
      states |-> <<
          [k |-> "keyed", v |-> [condition |-> [has_flags |-> <<"has_key">>],
                                 description |-> "The hall; the key weighs in your pocket."]],
          [k |-> "met",   v |-> [condition |-> [has_flags |-> <<"met_elder">>],
                                 description |-> "The hall; the elder nods at you."]] >>,
      exits |-> <<
          [k |-> "library_door", v |-> [target |-> "library"]],
          [k |-> "trapdoor",     v |-> [target |-> "cellar", hidden |-> TRUE]],
          [k |-> "north",        v |-> [target |-> "attic"]] >>,
      locked_exits |-> <<
          [k |-> "library_door", v |-> [condition |-> [has_flags |-> <<"has_key">>],
                                        message |-> "It's locked."]] >>,
      objects |-> <<
          [k |-> "desk",   v |-> [description |-> "An oak desk.",
                                  reveals |-> <<"trapdoor", "drawer">>,
                                  flags_set |-> <<"searched_desk">>]],
          [k |-> "drawer", v |-> [description |-> "A shallow drawer.", hidden |-> TRUE]],
          [k |-> "lamp",   v |-> [description |-> "A brass lamp."]] >>,
      items |-> <<
          [k |-> "key",    v |-> [name |-> "Brass Key"]],
          [k |-> "statue", v |-> EmptyDict],
          [k |-> "gem",    v |-> EmptyDict] >>,
      locked_items |-> <<
          [k |-> "gem", v |-> [condition |-> [lacks_flags |-> <<"met_elder">>],
                               message |-> "The gem is behind glass."]] >>,
      characters |-> << [k |-> "elder", v |-> [bool |-> TRUE]] >>,
      events |-> <<
          [k |-> "find_note",  v |-> [trigger |-> "search desk", items_add |-> <<"note">>]],
          [k |-> "pull_lever", v |-> [trigger |-> "Pull Lever", message |-> "Click.",
                                      flags_set |-> <<"has_key">>]],
          [k |-> "grab_gem",   v |-> [trigger |-> "take gem",
                                      condition |-> [lacks_flags |-> <<"searched_desk">>],
                                      message |-> "An alarm rings.",
                                      flags_set |-> <<"searched_desk">>]],
          [k |-> "fall",       v |-> [trigger |-> "open trapdoor",
                                      condition |-> [has_flags |-> <<"searched_desk">>],
                                      message |-> "You fall.",
                                      flags_set |-> <<"fell">>,
                                      items_add |-> <<"gem">>,
                                      change_scene |-> "cellar"]],
          [k |-> "glint",      v |-> [trigger |-> "use key", message |-> "The key glints."]] >> ]

LibraryData ==
    [ name |-> "Library",
      description |-> "Rows of books.",
      states |-> << >>,
      exits |-> << [k |-> "hall_door", v |-> [target |-> "hall"]] >>,
      locked_exits |-> << >>,
      objects |-> << [k |-> "shelf", v |-> [description |-> "A tall shelf."]] >>,
      items |-> << [k |-> "scroll", v |-> EmptyDict],
                   [k |-> "ghost",  v |-> EmptyDict] >>,
      locked_items |-> << >>,
      characters |-> << [k |-> "guard", v |-> [condition |-> [has_flags |-> <<"met_elder">>]]] >>,
      events |-> <<
          [k |-> "lost",    v |-> [trigger |-> "read", message |-> "The floor gives way.",
                                   change_scene |-> "attic"]],
          [k |-> "draught", v |-> [trigger |-> "look", message |-> "A draught.",
                                   flags_set |-> <<"searched_desk">>]] >> ]

CellarData ==
    [ name |-> "Cellar",
      description |-> "A damp cellar.",
      states |-> <<
          [k |-> "fallen", v |-> [condition |-> [has_flags |-> <<"fell">>],
                                  description |-> "A damp cellar; your ankle hurts."]] >>,
      exits |-> << [k |-> "ladder", v |-> [target |-> "hall"]] >>,
      locked_exits |-> << >>,
      objects |-> << >>,
      items |-> << >>,
      locked_items |-> << >>,
      characters |-> << >>,
      events |-> << >> ]

\* a scene no exit leads to: its events share trigger texts, differ from the
\* commands in letter case, match more than one candidate trigger of a command,
\* one grants an id (coin) that is not in engine.items, and three are triggered
\* by a verb on a thing (moss, wall, vent) that is no object of the scene
VaultData ==
    [ name |-> "Vault",
      description |-> "A sealed vault.",
      states |-> << >>,
      exits |-> << >>,
      locked_exits |-> << >>,
      objects |-> <<
          [k |-> "crate", v |-> [description |-> "A nailed crate.",
                                 reveals |-> <<"hatch">>,
                                 flags_set |-> <<"has_key">>]],
          [k |-> "hatch", v |-> [description |-> "A hatch.", hidden |-> TRUE]] >>,
      items |-> << >>,
      locked_items |-> << >>,
      characters |-> << >>,
      events |-> <<
          [k |-> "creak",       v |-> [trigger |-> "pull chain", message |-> "The chain creaks.",
                                       flags_set |-> <<"has_key">>]],
          [k |-> "rumble",      v |-> [trigger |-> "Pull",
                                       condition |-> [has_flags |-> <<"met_elder">>],
                                       message |-> "A rumble.",
                                       flags_set |-> <<"searched_desk">>]],
          [k |-> "hook",        v |-> [trigger |-> "pull chain on hook",
                                       message |-> "The hook bends.",
                                       items_add |-> <<"coin">>]],
          [k |-> "creak_again", v |-> [trigger |-> "PULL CHAIN", message |-> "Again.",
                                       flags_set |-> <<"fell">>]],
          [k |-> "slide",       v |-> [trigger |-> "push wall",
                                       condition |-> [lacks_flags |-> <<"met_elder">>],
                                       flags_set |-> <<"fell">>,
                                       items_add |-> <<"gem", "coin">>,
                                       change_scene |-> "cellar"]],
          [k |-> "moss",        v |-> [trigger |-> "eat moss", message |-> "Bitter.",
                                       flags_set |-> <<"fell">>]],
          [k |-> "seam",        v |-> [trigger |-> "search wall", message |-> "A seam.",
                                       flags_set |-> <<"has_key">>]],
          [k |-> "vent",        v |-> [trigger |-> "close vent",
                                       condition |-> [has_flags |-> <<"met_elder">>],
                                       message |-> "The vent shuts."]],
          [k |-> "pry",         v |-> [trigger |-> "search crate",
                                       condition |-> [has_flags |-> <<"met_elder">>],
                                       message |-> "The nails hold."]],
          [k |-> "dust",        v |-> [trigger |-> "search",
                                       condition |-> [has_flags |-> <<"searched_desk">>],
                                       message |-> "Dust rises."]] >> ]

\* engine.scenes, a dict scene id -> Scene
SceneIds == {"hall", "library", "cellar", "vault"}

SceneData(id) ==
    CASE id = "hall"    -> HallData
      [] id = "library" -> LibraryData
      [] id = "cellar"  -> CellarData
      [] id = "vault"   -> VaultData

\* game.yaml's starting_scene
StartingScene == "hall"

\* the game directory of the world above: game.yaml is there, loads, and names
\* the hall
LoadedGameDir == [game_file |-> "ok", starting_scene |-> StartingScene]

\* the game directories load_game may meet: game.yaml missing; game.yaml there
\* but raising while it is read (no title, no YAML); game.yaml naming a
\* starting scene that is loaded, one that is not, or none (None)
GameDirs ==
    { [game_file |-> "missing"],
      [game_file |-> "raises"],
      LoadedGameDir,
      [game_file |-> "ok", starting_scene |-> "attic"],
      [game_file |-> "ok", starting_scene |-> "None"] }

\* QuillEngine.load_game: the value returned
load_game(dir) ==
    IF dir.game_file = "missing" THEN FALSE
    ELSE IF dir.game_file = "raises" THEN FALSE
    ELSE IF dir.starting_scene \notin SceneIds THEN FALSE
    ELSE TRUE

\* engine.items, a dict item id -> Item; each value is Item.data
ItemRegistry == <<
    [k |-> "key",    v |-> [name |-> "Brass Key",
                            examination |-> [text |-> "A small brass key."],
                            effects |-> [use_on_door |-> [message |-> "The key turns.",
                                                          flags_set |-> <<"has_key">>]]]],
    [k |-> "statue", v |-> [name |-> "Statue", takeable |-> FALSE]],
    [k |-> "gem",    v |-> [name |-> "Gem"]],
    [k |-> "note",   v |-> [name |-> "Note"]],
    [k |-> "scroll", v |-> [name |-> "Scroll"]] >>

\* engine.characters, a dict character id -> Character; each value is Character.data
CharacterRegistry == <<
    [k |-> "elder", v |-> [
        name |-> "Elder",
        dialogue |-> [
            text |-> "Who are you?",
            options |-> <<
                [text |-> "A friend.", response |-> "Then take this.",
                 actions |-> << [type |-> "set_flag", flag |-> "met_elder"],
                                [type |-> "give_item", item |-> "token"] >>],
                [text |-> "Nobody.", response |-> "Then go.",
                 actions |-> << [type |-> "set_flag", flag |-> "has_key"] >>] >>],
        dialogue_states |-> <<
            [k |-> "again", v |-> [condition |-> [has_flags |-> <<"met_elder">>],
                                   text |-> "You again.",
                                   options |-> <<
                                       [text |-> "Bye.", response |-> "Farewell.",
                                        actions |-> << [type |-> "give_item",
                                                        item |-> "gem"] >>] >>]],
            [k |-> "keyed", v |-> [condition |-> [has_flags |-> <<"has_key">>],
                                   text |-> "You hold the key.",
                                   options |-> << >>]] >>]],
    [k |-> "guard", v |-> [
        name |-> "Guard",
        dialogue |-> [text |-> "Halt.", options |-> << >>],
        dialogue_states |-> << >>]] >>

-----------------------------------------------------------------------------
(* Scene: the accessors take the scene's data and the mutable parts they read *)

\* index of the first entry of an ordered dict that matches, 0 when none does;
\* matches[n] tells whether the n-th entry does
FirstIndex(matches) ==
    LET Hit(i) == matches[i]
        hits == SelectSeq([i \in 1..Len(matches) |-> i], Hit)
    IN  IF hits = <<>> THEN 0 ELSE hits[1]

\* a get_description that returns the last matching state instead of the first
Scene_get_description_LastMatch(data, player_flags) ==
    LET Match(e) == Scene_check_condition(Get(e.v, "condition", EmptyDict), player_flags)
        hits == SelectSeq(data.states, Match)
    IN  IF hits = <<>> THEN data.description
        ELSE Get(hits[Len(hits)].v, "description", data.description)

\* Scene.get_description
Scene_get_description(data, player_flags) ==
    LET Match(e) == Scene_check_condition(Get(e.v, "condition", EmptyDict), player_flags)
        i == FirstIndex([n \in 1..Len(data.states) |-> Match(data.states[n])])
    IN  IF i = 0 THEN data.description
        ELSE Get(data.states[i].v, "description", data.description)

\* a get_visible_exits that returns every exit, hidden or not
Scene_get_visible_exits_All(data, revealed) == data.exits

\* Scene.get_visible_exits
Scene_get_visible_exits(data, revealed) ==
    LET Visible(e) == ~ (Get(e.v, "hidden", FALSE) /\ e.k \notin revealed)
    IN  SelectSeq(data.exits, Visible)

\* Scene.get_visible_objects
Scene_get_visible_objects(data, revealed) ==
    LET Visible(e) == ~ (Get(e.v, "hidden", FALSE) /\ e.k \notin revealed)
        shown == SelectSeq(data.objects, Visible)
    IN  [i \in 1..Len(shown) |-> [k |-> shown[i].k, v |-> Get(shown[i].v, "description", "")]]

\* Scene.has_object
Scene_has_object(data, object_name) == HasKey(data.objects, object_name)

\* Scene.get_object_description
Scene_get_object_description(data, object_name) ==
    IF ~ HasKey(data.objects, object_name) THEN ""
    ELSE LET obj_data == Lookup(data.objects, object_name)
         IN  IF DOMAIN obj_data = {} THEN "" ELSE Get(obj_data, "description", "")

\* Scene.find_item: items are the keys now in Scene.items, data.items their values
Scene_find_item(data, items, item_name) ==
    IF InList(item_name, items) THEN item_name
    ELSE LET Named(id) ==
                 Lower(Get(Lookup(data.items, id), "name", "")) = Lower(item_name)
             hits == SelectSeq(items, Named)
         IN  IF hits = <<>> THEN "" ELSE hits[1]

\* Scene.remove_item
Scene_remove_item(items, item_id) ==
    LET Other(id) == id # item_id IN SelectSeq(items, Other)

\* Scene.is_exit_locked
Scene_is_exit_locked(data, exit_name, player_flags) ==
    IF ~ HasKey(data.locked_exits, exit_name) THEN FALSE
    ELSE Scene_check_condition(
             Get(Lookup(data.locked_exits, exit_name), "condition", EmptyDict), player_flags)

\* Scene.get_locked_exit_message
Scene_get_locked_exit_message(data, exit_name) ==
    IF ~ HasKey(data.locked_exits, exit_name) THEN "You can't go that way."
    ELSE Get(Lookup(data.locked_exits, exit_name), "message", "That way is locked.")

\* Scene.is_item_locked
Scene_is_item_locked(data, item_id, player_flags) ==
    IF ~ HasKey(data.locked_items, item_id) THEN FALSE
    ELSE Scene_check_condition(
             Get(Lookup(data.locked_items, item_id), "condition", EmptyDict), player_flags)

\* Scene.get_locked_item_message
Scene_get_locked_item_message(data, item_id) ==
    IF ~ HasKey(data.locked_items, item_id) THEN "You can't take that."
    ELSE Get(Lookup(data.locked_items, item_id), "message", "You can't take that right now.")

\* a check_event that compares the trigger texts letter for letter
Scene_check_event_Exact(data, trigger, player_flags) ==
    LET Fires(e) ==
            /\ Get(e.v, "trigger", "") = trigger
            /\ Scene_check_condition(Get(e.v, "condition", EmptyDict), player_flags)
    IN  FirstIndex([n \in 1..Len(data.events) |-> Fires(data.events[n])])

\* Scene.check_event: the index of the event returned, 0 for None
Scene_check_event(data, trigger, player_flags) ==
    LET lowered == Lower(trigger)
        Fires(e) ==
            /\ Lower(Get(e.v, "trigger", "")) = lowered
            /\ Scene_check_condition(Get(e.v, "condition", EmptyDict), player_flags)
    IN  FirstIndex([n \in 1..Len(data.events) |-> Fires(data.events[n])])

\* Scene.has_character
Scene_has_character(data, character_id, player_flags) ==
    IF ~ HasKey(data.characters, character_id) THEN FALSE
    ELSE LET char_data == Lookup(data.characters, character_id)
         IN  IF "bool" \in DOMAIN char_data THEN char_data.bool
             ELSE IF "condition" \in DOMAIN char_data
                  THEN Scene_check_condition(char_data.condition, player_flags)
                  ELSE TRUE

-----------------------------------------------------------------------------
(* Character and Player *)

\* Character.get_dialogue
Character_get_dialogue(data, player_flags) ==
    LET Match(e) == Character_check_condition(Get(e.v, "condition", EmptyDict), player_flags)
        i == FirstIndex([n \in 1..Len(data.dialogue_states) |-> Match(data.dialogue_states[n])])
    IN  IF i = 0
        THEN [text |-> Get(data.dialogue, "text", ""),
              options |-> Get(data.dialogue, "options", <<>>)]
        ELSE [text |-> Get(data.dialogue_states[i].v, "text", ""),
              options |-> Get(data.dialogue_states[i].v, "options", <<>>)]

\* an add_item that appends without looking
Player_add_item_Dup(inv, item_id) == Append(inv, item_id)

\* an add_item that moves an id already held to the end of the list
Player_add_item_Move(inv, item_id) ==
    Append(SelectSeq(inv, LAMBDA x : x # item_id), item_id)

\* Player.add_item
Player_add_item(inv, item_id) ==
    IF InList(item_id, inv) THEN inv ELSE Append(inv, item_id)

\* Player.has_item
Player_has_item(inv, item_id) == InList(item_id, inv)

\* flags replaced by the flags of the list, when it has any
AddFlags_Replace(fl, list) == IF list = <<>> THEN fl ELSE Range(list)

\* Player.add_flag, for each flag of a list
AddFlags(fl, list) == fl \cup Range(list)

-----------------------------------------------------------------------------
(* The engine.  A handler is an operator from the engine state S before it  *)
(* to the state after it.  S holds the mutable game state, the renderings   *)
(* of the turn so far (out) and the exception that left the handler         *)
(* (raised, "" when none did).                                              *)

Data(S) == SceneData(S.current_scene)

\* console.print_error, console.print_info, typewriter.print, print
Say(S, via, text) == [S EXCEPT !.out = Append(@, [via |-> via, text |-> text])]

Raise(S, exception) == [S EXCEPT !.raised = exception]

\* an Item that answers key in item as a dict does
Item_contains_works == FALSE

\* key in item, for an Item: Item defines __getitem__ and neither __contains__
\* nor __iter__, so Python asks for item[0], and __getitem__ raises KeyError
\* for every key its data lacks
Item_contains_raises == TRUE

\* self.items.get(item, {}).get("name", item)
ItemName(item_id) ==
    IF HasKey(ItemRegistry, item_id)
    THEN Get(Lookup(ItemRegistry, item_id), "name", item_id)
    ELSE item_id

\* QuillEngine.get_characters_in_scene: the ids, in the order of engine.characters
get_characters_in_scene(S) ==
    LET Present(id) == Scene_has_character(Data(S), id, S.flags)
    IN  SelectSeq(Keys(CharacterRegistry), Present)

\* QuillEngine.display_current_scene
display_current_scene(S) ==
    [S EXCEPT !.out = Append(@,
        [via |-> "scene",
         name |-> Data(S).name,
         text |-> Scene_get_description(Data(S), S.flags),
         exits |-> Keys(Scene_get_visible_exits(Data(S), S.revealed_objects[S.current_scene])),
         objects |-> Keys(Scene_get_visible_objects(Data(S), S.revealed_objects[S.current_scene])),
         characters |-> get_characters_in_scene(S)])]

\* a reveal_hidden_objects that flips membership: what was revealed is hidden again
reveal_hidden_objects_Toggle(S, object_name) ==
    IF ~ HasKey(Data(S).objects, object_name) THEN S
    ELSE LET reveals == Range(Get(Lookup(Data(S).objects, object_name), "reveals", <<>>))
             before == S.revealed_objects[S.current_scene]
         IN  [S EXCEPT
                 !.revealed_objects[S.current_scene] = (before \ reveals) \cup (reveals \ before),
                 !.flags = AddFlags(@, Get(Lookup(Data(S).objects, object_name),
                                           "flags_set", <<>>))]

\* a revelation kept in one set shared by all scenes
reveal_hidden_objects_Shared(S, object_name) ==
    IF ~ HasKey(Data(S).objects, object_name) THEN S
    ELSE LET obj_data == Lookup(Data(S).objects, object_name)
             names == Range(Get(obj_data, "reveals", <<>>))
         IN  IF DOMAIN obj_data = {} THEN S
             ELSE [S EXCEPT
                     !.revealed_objects = [id \in DOMAIN @ |-> @[id] \cup names],
                     !.flags = AddFlags(@, Get(obj_data, "flags_set", <<>>))]

\* Scene.reveal_hidden_objects
reveal_hidden_objects(S, object_name) ==
    IF ~ HasKey(Data(S).objects, object_name) THEN S
    ELSE LET obj_data == Lookup(Data(S).objects, object_name)
         IN  IF DOMAIN obj_data = {} THEN S
             ELSE [S EXCEPT
                     !.revealed_objects[S.current_scene] =
                         @ \cup Range(Get(obj_data, "reveals", <<>>)),
                     !.flags = AddFlags(@, Get(obj_data, "flags_set", <<>>))]

\* an items_add loop that appends every listed id, held already or not
RECURSIVE GrantItems_Append(_, _)
GrantItems_Append(S, items) ==
    IF items = <<>> THEN S
    ELSE GrantItems_Append(
             Say([S EXCEPT !.inventory = Append(@, Head(items))],
                 "typewriter", "* You got: " \o ItemName(Head(items))),
             Tail(items))

\* the items_add loop of check_events: every listed id is added
RECURSIVE GrantItems(_, _)
GrantItems(S, items) ==
    IF items = <<>> THEN S
    ELSE GrantItems(
             Say([S EXCEPT !.inventory = Player_add_item(@, Head(items))],
                 "typewriter", "* You got: " \o ItemName(Head(items))),
             Tail(items))

\* the items_add loop of the trigger_event branch: only ids of engine.items
RECURSIVE GrantKnownItems(_, _)
GrantKnownItems(S, items) ==
    IF items = <<>> THEN S
    ELSE GrantKnownItems(
             IF HasKey(ItemRegistry, Head(items))
             THEN Say([S EXCEPT !.inventory = Player_add_item(@, Head(items))],
                      "typewriter", "* You got: " \o ItemName(Head(items)))
             ELSE S,
             Tail(items))

\* a change_scene step that does not ask whether the scene named is loaded
ChangeScene_Unchecked(S, event) ==
    IF "change_scene" \in DOMAIN event
    THEN [S EXCEPT !.current_scene = event.change_scene]
    ELSE S

\* the change_scene step shared by both event paths
ChangeScene(S, event) ==
    IF "change_scene" \in DOMAIN event /\ event.change_scene \in SceneIds
    THEN display_current_scene([S EXCEPT !.current_scene = event.change_scene])
    ELSE S

\* an event body that changes the scene first and applies the rest afterwards
ApplyEvent_SceneFirst(S, event) ==
    LET S1 == ChangeScene(S, event)
        S2 == Say(S1, "typewriter", Get(event, "message", ""))
        S3 == [S2 EXCEPT !.flags = AddFlags(@, Get(event, "flags_set", <<>>))]
    IN  GrantItems(S3, Get(event, "items_add", <<>>))

\* the body of check_events' loop once an event matched
ApplyEvent(S, event) ==
    LET S1 == Say(S, "typewriter", Get(event, "message", ""))
        S2 == [S1 EXCEPT !.flags = AddFlags(@, Get(event, "flags_set", <<>>))]
        S3 == GrantItems(S2, Get(event, "items_add", <<>>))
    IN  ChangeScene(S3, event)

\* a check_events that applies the last candidate trigger that matches
check_events_LastCandidate(S, action, target, indirect_target) ==
    LET triggers == << action,
                       action \o " " \o target,
                       action \o " " \o target \o " on " \o indirect_target >>
        found == [i \in 1..3 |-> Scene_check_event(Data(S), Strip(triggers[i]), S.flags)]
        hits == {i \in 1..3 : found[i] # 0}
        last == CHOOSE i \in hits : \A j \in hits : i >= j
    IN  IF hits # {}
        THEN [st |-> ApplyEvent(S, Data(S).events[found[last]].v), hit |-> TRUE]
        ELSE [st |-> S, hit |-> FALSE]

\* QuillEngine.check_events: [st |-> the state after, hit |-> the value returned]
check_events(S, action, target, indirect_target) ==
    LET triggers == << action,
                       action \o " " \o target,
                       action \o " " \o target \o " on " \o indirect_target >>
        found == [i \in 1..3 |-> Scene_check_event(Data(S), Strip(triggers[i]), S.flags)]
        hits == {i \in 1..3 : found[i] # 0}
        first == CHOOSE i \in hits : \A j \in hits : i <= j
    IN  IF hits # {}
        THEN [st |-> ApplyEvent(S, Data(S).events[found[first]].v), hit |-> TRUE]
        ELSE [st |-> S, hit |-> FALSE]

\* a handle_movement that says nothing when the exit's target is not loaded
handle_movement_Silent(S, exit_name) ==
    LET exits == Scene_get_visible_exits(Data(S), S.revealed_objects[S.current_scene])
        Named(e) == Lower(e.k) = Lower(exit_name)
        i == FirstIndex([n \in 1..Len(exits) |-> Named(exits[n])])
    IN  IF i = 0 \/ DOMAIN exits[i].v = {}
        THEN Say(S, "print_error", "There's no '" \o exit_name \o "' that you can see.")
        ELSE IF Scene_is_exit_locked(Data(S), exits[i].k, S.flags)
        THEN Say(S, "typewriter", Scene_get_locked_exit_message(Data(S), exits[i].k))
        ELSE IF "target" \in DOMAIN exits[i].v /\ exits[i].v.target \in SceneIds
        THEN display_current_scene([S EXCEPT !.current_scene = exits[i].v.target])
        ELSE S

\* QuillEngine.handle_movement
handle_movement(S, exit_name) ==
    LET exits == Scene_get_visible_exits(Data(S), S.revealed_objects[S.current_scene])
        Named(e) == Lower(e.k) = Lower(exit_name)
        i == FirstIndex([n \in 1..Len(exits) |-> Named(exits[n])])
    IN  IF i = 0 \/ DOMAIN exits[i].v = {}
        THEN Say(S, "print_error", "There's no '" \o exit_name \o "' that you can see.")
        ELSE IF Scene_is_exit_locked(Data(S), exits[i].k, S.flags)
        THEN Say(S, "typewriter", Scene_get_locked_exit_message(Data(S), exits[i].k))
        ELSE IF "target" \in DOMAIN exits[i].v /\ exits[i].v.target \in SceneIds
        THEN display_current_scene([S EXCEPT !.current_scene = exits[i].v.target])
        ELSE Say(S, "print_error",
                 "Error: Scene '" \o Get(exits[i].v, "target", "None") \o "' not found.")

\* QuillEngine.examine_object
examine_object(S, object_name) ==
    IF Scene_has_object(Data(S), object_name)
    THEN reveal_hidden_objects(
             Say(S, "typewriter", Scene_get_object_description(Data(S), object_name)),
             object_name)
    ELSE IF Player_has_item(S.inventory, object_name) /\ HasKey(ItemRegistry, object_name)
    THEN IF Item_contains_raises THEN Raise(S, "KeyError")
         ELSE IF "examination" \in DOMAIN Lookup(ItemRegistry, object_name)
         THEN Say(S, "typewriter", Lookup(ItemRegistry, object_name).examination.text)
         ELSE Say(S, "print_error", "You don't see any '" \o object_name \o "' here.")
    ELSE Say(S, "print_error", "You don't see any '" \o object_name \o "' here.")

\* a take_item that does not ask whether the item is locked
take_item_NoLock(S, item_name) ==
    LET item_id == Scene_find_item(Data(S), S.scene_items[S.current_scene], item_name)
    IN  IF item_id = ""
        THEN Say(S, "print_error", "There's no '" \o item_name \o "' here that you can take.")
        ELSE IF ~ HasKey(ItemRegistry, item_id)
                \/ ~ Get(Lookup(ItemRegistry, item_id), "takeable", TRUE)
        THEN Say(S, "typewriter", "You can't take the " \o item_name \o ".")
        ELSE Say([S EXCEPT
                    !.inventory = Player_add_item(@, item_id),
                    !.scene_items[S.current_scene] = Scene_remove_item(@, item_id)],
                 "typewriter",
                 "You take the " \o Get(Lookup(ItemRegistry, item_id), "name", item_name) \o ".")

\* QuillEngine.take_item
take_item(S, item_name) ==
    LET item_id == Scene_find_item(Data(S), S.scene_items[S.current_scene], item_name)
    IN  IF item_id = ""
        THEN Say(S, "print_error", "There's no '" \o item_name \o "' here that you can take.")
        ELSE IF ~ HasKey(ItemRegistry, item_id)
                \/ ~ Get(Lookup(ItemRegistry, item_id), "takeable", TRUE)
        THEN Say(S, "typewriter", "You can't take the " \o item_name \o ".")
        ELSE IF Scene_is_item_locked(Data(S), item_id, S.flags)
        THEN Say(S, "typewriter", Scene_get_locked_item_message(Data(S), item_id))
        ELSE Say([S EXCEPT
                    !.inventory = Player_add_item(@, item_id),
                    !.scene_items[S.current_scene] = Scene_remove_item(@, item_id)],
                 "typewriter",
                 "You take the " \o Get(Lookup(ItemRegistry, item_id), "name", item_name) \o ".")

\* the effect branch of use_item: render the effect's message, set its flags
ApplyEffect(S, effect, default_message) ==
    [Say(S, "typewriter", Get(effect, "message", default_message))
        EXCEPT !.flags = AddFlags(@, Get(effect, "flags_set", <<>>))]

\* QuillEngine.use_item
use_item(S, item_name, target_name) ==
    IF ~ Player_has_item(S.inventory, item_name)
    THEN Say(S, "print_error", "You don't have a '" \o item_name \o "' to use.")
    ELSE IF ~ HasKey(ItemRegistry, item_name)
    THEN Say(S, "print_error", "Item '" \o item_name \o "' not found in game data.")
    ELSE IF Item_contains_raises THEN Raise(S, "KeyError")
    ELSE LET item == Lookup(ItemRegistry, item_name)
             effects == Get(item, "effects", EmptyDict)
             effect_key == IF target_name # "" THEN "use_on_" \o target_name ELSE "use"
             event_trigger == IF target_name # ""
                              THEN "use " \o item_name \o " on " \o target_name
                              ELSE "use " \o item_name
             r == check_events(S, event_trigger, "", "")
         IN  IF effect_key \in DOMAIN effects
             THEN ApplyEffect(S, effects[effect_key],
                      IF target_name # ""
                      THEN "You use the " \o item_name \o " on the " \o target_name \o "."
                      ELSE "You use the " \o item_name \o ".")
             ELSE IF r.hit THEN r.st
             ELSE IF target_name # ""
             THEN Say(S, "print_error", "You can't use the " \o item_name \o " on the "
                                        \o target_name \o " like that.")
             ELSE Say(S, "print_error",
                      "You're not sure how to use the " \o item_name \o " here.")

\* an int() that reads every line that is no number as 1
IntOf_Lenient(choice) ==
    CASE Strip(choice) = "1" -> [ok |-> TRUE, n |-> 1]
      [] Strip(choice) = "2" -> [ok |-> TRUE, n |-> 2]
      [] Strip(choice) = "3" -> [ok |-> TRUE, n |-> 3]
      [] Strip(choice) = "0" -> [ok |-> TRUE, n |-> 0]
      [] Strip(choice) = "-1" -> [ok |-> TRUE, n |-> -1]
      [] OTHER -> [ok |-> TRUE, n |-> 1]

\* int(choice) for the answers a player may type; ok is FALSE for ValueError
IntOf(choice) ==
    CASE Strip(choice) = "1" -> [ok |-> TRUE, n |-> 1]
      [] Strip(choice) = "2" -> [ok |-> TRUE, n |-> 2]
      [] Strip(choice) = "3" -> [ok |-> TRUE, n |-> 3]
      [] Strip(choice) = "0" -> [ok |-> TRUE, n |-> 0]
      [] Strip(choice) = "-1" -> [ok |-> TRUE, n |-> -1]
      [] OTHER -> [ok |-> FALSE, n |-> 0]

\* DialogueMenu.get_choice on the line typed: the zero-based index, -1 for None
DialogueMenu_get_choice(choice) ==
    IF Strip(choice) = "" THEN [index |-> -1, printed |-> <<>>]
    ELSE IF ~ IntOf(choice).ok THEN [index |-> -1, printed |-> <<"Please enter a number.">>]
    ELSE IF IntOf(choice).n < 1 THEN [index |-> -1, printed |-> <<"Invalid choice.">>]
    ELSE [index |-> IntOf(choice).n - 1, printed |-> <<>>]

\* a loop over option["actions"] that stops after the first action
ApplyDialogueActions_FirstOnly(S, actions, character_name) ==
    IF actions = <<>> THEN S
    ELSE IF Head(actions).type = "set_flag"
    THEN [S EXCEPT !.flags = @ \cup {Head(actions).flag}]
    ELSE IF Head(actions).type = "give_item"
    THEN Say([S EXCEPT !.inventory = Player_add_item(@, Head(actions).item)],
             "typewriter",
             "* " \o character_name \o " gives you the " \o ItemName(Head(actions).item) \o ".")
    ELSE S

\* the loop over option["actions"] in talk_to_character
RECURSIVE ApplyDialogueActions(_, _, _)
ApplyDialogueActions(S, actions, character_name) ==
    IF actions = <<>> THEN S
    ELSE LET a == Head(actions)
             S1 == IF a.type = "set_flag"
                   THEN [S EXCEPT !.flags = @ \cup {a.flag}]
                   ELSE IF a.type = "give_item"
                   THEN Say([S EXCEPT !.inventory = Player_add_item(@, a.item)],
                            "typewriter",
                            "* " \o character_name \o " gives you the " \o ItemName(a.item) \o ".")
                   ELSE S
         IN  ApplyDialogueActions(S1, Tail(actions), character_name)

\* QuillEngine.talk_to_character; choice is the line the dialogue menu reads
talk_to_character(S, character_name, choice) ==
    LET characters == get_characters_in_scene(S)
        Named(id) ==
            \/ Lower(Get(Lookup(CharacterRegistry, id), "name", "")) = Lower(character_name)
            \/ Lower(id) = Lower(character_name)
        found == SelectSeq(characters, Named)
    IN  IF found = <<>>
        THEN Say(S, "print_error", "There's no '" \o character_name \o "' here to talk to.")
        ELSE LET character == Lookup(CharacterRegistry, found[1])
                 name == Get(character, "name", "")
                 dialogue == Character_get_dialogue(character, S.flags)
                 S1 == [S EXCEPT !.out = Append(@,
                           [via |-> "dialogue", name |-> name, text |-> dialogue.text,
                            options |-> [i \in 1..Len(dialogue.options)
                                            |-> dialogue.options[i].text]])]
                 got == DialogueMenu_get_choice(choice)
                 S2 == IF got.printed = <<>> THEN S1 ELSE Say(S1, "print", got.printed[1])
             IN  IF got.index = -1 THEN S2
                 ELSE IF got.index + 1 > Len(dialogue.options) THEN Raise(S2, "IndexError")
                 ELSE LET option == dialogue.options[got.index + 1]
                          S3 == Say(S2, "typewriter", name \o ": " \o option.response)
                      IN  ApplyDialogueActions(S3, Get(option, "actions", <<>>), name)

\* QuillEngine.display_inventory
display_inventory(S) ==
    IF S.inventory = <<>> THEN Say(S, "typewriter", "Your inventory is empty.")
    ELSE [S EXCEPT !.out = Append(@,
             [via |-> "inventory",
              items |-> [i \in 1..Len(S.inventory) |-> ItemName(S.inventory[i])]])]

\* QuillEngine._handle_eat
handle_eat(S, target) ==
    IF Scene_has_object(Data(S), target) THEN check_events(S, "eat " \o target, "", "").st
    ELSE IF Player_has_item(S.inventory, target)
    THEN check_events(S, "eat " \o target, "", "").st
    ELSE Say(S, "print_error", "You don't see any '" \o target \o "' here to eat.")

\* QuillEngine._handle_drink
handle_drink(S, target) ==
    LET nothing(T) == Say(T, "print_error", "You don't see anything to drink here.")
        r0 == check_events(S, "drink", "", "")
        r1 == check_events(S, "drink " \o target, "", "")
        r2 == check_events(S, "drink water", "", "")
        r3 == check_events(S, "drink from well", "", "")
        r4 == check_events(S, "use well", "", "")
    IN  IF target = "" THEN (IF r0.hit THEN r0.st ELSE nothing(S))
        ELSE IF ~ Scene_has_object(Data(S), target) THEN nothing(S)
        ELSE IF r1.hit THEN r1.st
        ELSE IF target = "water" \/ target = "well"
        THEN (IF r2.hit THEN r2.st
              ELSE IF r3.hit THEN r3.st
              ELSE IF r4.hit THEN r4.st
              ELSE nothing(S))
        ELSE nothing(S)

\* QuillEngine._handle_push_pull and _handle_open_close: the same body
handle_verb_on(S, target, action) ==
    LET r == check_events(S, action \o " " \o target, "", "")
    IN  IF target = "" THEN Say(S, "print_error", "What do you want to " \o action \o "?")
        ELSE IF r.hit THEN r.st
        ELSE IF ~ Scene_has_object(Data(S), target)
        THEN Say(S, "print_error",
                 "You don't see any '" \o target \o "' here to " \o action \o ".")
        ELSE Say(S, "print_error", "You can't " \o action \o " the " \o target \o ".")

\* a search that describes the object and reveals nothing
handle_search_NoReveal(S, target) ==
    LET r0 == check_events(S, "search", "", "")
        r1 == check_events(S, "search " \o target, "", "")
    IN  IF target = "" THEN (IF r0.hit THEN r0.st ELSE display_current_scene(S))
        ELSE IF Scene_has_object(Data(S), target)
        THEN IF r1.hit THEN r1.st
             ELSE Say(S, "typewriter",
                      "You search the " \o target \o ". "
                      \o Scene_get_object_description(Data(S), target))
        ELSE Say(S, "print_error", "You don't see any '" \o target \o "' here to search.")

\* QuillEngine._handle_search
handle_search(S, target) ==
    LET r0 == check_events(S, "search", "", "")
        r1 == check_events(S, "search " \o target, "", "")
    IN  IF target = "" THEN (IF r0.hit THEN r0.st ELSE display_current_scene(S))
        ELSE IF Scene_has_object(Data(S), target)
        THEN IF r1.hit THEN r1.st
             ELSE LET S1 == reveal_hidden_objects(S, target)
                  IN  Say(S1, "typewriter",
                          "You search the " \o target \o ". "
                          \o Scene_get_object_description(Data(S1), target))
        ELSE Say(S, "print_error", "You don't see any '" \o target \o "' here to search.")

\* a trigger_event branch that applies the event without asking for its condition
trigger_event_Unconditional(S, event) ==
    LET S1 == IF "message" \in DOMAIN event
              THEN Say(S, "typewriter", event.message) ELSE S
        S2 == [S1 EXCEPT !.flags = AddFlags(@, Get(event, "flags_set", <<>>))]
        S3 == GrantKnownItems(S2, Get(event, "items_add", <<>>))
    IN  ChangeScene(S3, event)

\* the trigger_event branch of QuillEngine.process_command, for an event of the scene
trigger_event(S, event) ==
    IF "condition" \in DOMAIN event /\ ~ Engine_check_event_condition(event.condition, S.flags)
    THEN Say(S, "print_error", "Nothing happens.")
    ELSE LET S1 == IF "message" \in DOMAIN event
                   THEN Say(S, "typewriter", event.message) ELSE S
             S2 == [S1 EXCEPT !.flags = AddFlags(@, Get(event, "flags_set", <<>>))]
             S3 == GrantKnownItems(S2, Get(event, "items_add", <<>>))
         IN  ChangeScene(S3, event)

\* the if/elif chain both engines share: look, go, examine, take, use, inventory, talk
BasicCommand(S, command, choice) ==
    LET action == Get(command, "action", "")
        target == Get(command, "target", "")
    IN  CASE action = "look" -> display_current_scene(S)
          [] action = "go" -> handle_movement(S, target)
          [] action = "examine" -> examine_object(S, target)
          [] action = "take" -> take_item(S, target)
          [] action = "use" -> use_item(S, target, Get(command, "indirect_target", ""))
          [] action \in {"inventory", "inv"} -> display_inventory(S)
          [] action = "talk" -> talk_to_character(S, target, choice)

BasicActions == {"look", "go", "examine", "take", "use", "inventory", "inv", "talk"}

\* QuillEngine.process_command
Quill_process_command(S, command, choice) ==
    LET action == Get(command, "action", "")
        target == Get(command, "target", "")
        event_id == Get(command, "event_id", "")
    IN  IF action = ""
        THEN Say(S, "print_error", "I don't understand what you want to do.")
        ELSE IF action = "trigger_event" /\ event_id # "" /\ HasKey(Data(S).events, event_id)
        THEN trigger_event(S, Lookup(Data(S).events, event_id))
        ELSE IF action \in BasicActions THEN BasicCommand(S, command, choice)
        ELSE IF action = "eat" THEN handle_eat(S, target)
        ELSE IF action = "drink" THEN handle_drink(S, target)
        ELSE IF action \in {"push", "pull"} THEN handle_verb_on(S, target, action)
        ELSE IF action = "search" THEN handle_search(S, target)
        ELSE IF action \in {"open", "close"} THEN handle_verb_on(S, target, action)
        ELSE Say(S, "print_error", "I don't know how to '" \o action \o "'.")

\* SoliloquyEngine.process_command: the event check runs before every command
Soliloquy_process_command(S, command, choice) ==
    LET action == Get(command, "action", "")
        S1 == check_events(S, action, Get(command, "target", ""),
                           Get(command, "indirect_target", "")).st
    IN  IF action = ""
        THEN Say(S, "print_error", "I don't understand what you want to do.")
        ELSE IF action \in BasicActions THEN BasicCommand(S1, command, choice)
        ELSE Say(S1, "print_error", "I don't know how to '" \o action \o "'.")

-----------------------------------------------------------------------------
(* The command parser *)

\* CommandParser.verbs, in dict order
verbs == <<
    [k |-> "look", v |-> <<"look", "examine", "inspect", "check", "view", "see", "observe">>],
    [k |-> "go", v |-> <<"go", "move", "walk", "run", "travel", "head", "proceed",
                         "enter", "exit", "leave">>],
    [k |-> "take", v |-> <<"take", "grab", "pick", "collect", "get", "acquire", "steal">>],
    [k |-> "use", v |-> <<"use", "utilize", "employ", "apply", "operate">>],
    [k |-> "talk", v |-> <<"talk", "speak", "chat", "converse", "ask", "tell", "say">>],
    [k |-> "inventory", v |-> <<"inventory", "items", "possessions", "belongings">>],
    [k |-> "drop", v |-> <<"drop", "discard", "put", "place", "set">>] >>

\* CommandParser.prepositions
prepositions == <<"on", "in", "with", "to", "at", "for", "from", "by", "about">>

\* an _extract_command_parts that splits at the last preposition
extract_command_parts_LastPrep(words) ==
    LET IsPrep(i) == InList(words[i], prepositions)
        preps == {i \in 1..Len(words) : IsPrep(i)}
        last == CHOOSE i \in preps : \A j \in preps : i >= j
    IN  IF preps = {}
        THEN [action |-> words[1],
              target |-> IF Len(words) > 1 THEN Join(SubSeq(words, 2, Len(words))) ELSE "",
              indirect |-> ""]
        ELSE [action |-> words[1],
              target |-> IF last > 2 THEN Join(SubSeq(words, 2, last - 1)) ELSE "",
              indirect |-> IF last < Len(words)
                           THEN Join(SubSeq(words, last + 1, Len(words))) ELSE ""]

\* CommandParser._extract_command_parts (the same in both parsers)
extract_command_parts(words) ==
    LET IsPrep(i) == InList(words[i], prepositions)
        preps == {i \in 1..Len(words) : IsPrep(i)}
        first == CHOOSE i \in preps : \A j \in preps : i <= j
    IN  IF preps = {}
        THEN [action |-> words[1],
              target |-> IF Len(words) > 1 THEN Join(SubSeq(words, 2, Len(words))) ELSE "",
              indirect |-> ""]
        ELSE [action |-> words[1],
              target |-> IF first > 2 THEN Join(SubSeq(words, 2, first - 1)) ELSE "",
              indirect |-> IF first < Len(words)
                           THEN Join(SubSeq(words, first + 1, Len(words))) ELSE ""]

\* a mapping that takes every first token for a synonym of look
canonical_action_Look(action) == "look"

\* the loop that maps a verb to its canonical action: the key, "" for None
canonical_action(action) ==
    LET Has(e) == InList(action, e.v)
        i == FirstIndex([n \in 1..Len(verbs) |-> Has(verbs[n])])
    IN  IF i = 0 THEN "" ELSE verbs[i].k

\* the command built from the parts: target and indirect_target only when not empty
BuildCommand(canonical, target, indirect) ==
    LET base == [action |-> canonical]
        withT == IF target # "" THEN [action |-> canonical, target |-> target] ELSE base
    IN  IF indirect # ""
        THEN [k \in DOMAIN withT \cup {"indirect_target"} |->
                 IF k = "indirect_target" THEN indirect ELSE withT[k]]
        ELSE withT

\* the rewrite of look with a target to examine
LookToExamine(command) ==
    IF command.action = "look" /\ "target" \in DOMAIN command
    THEN [command EXCEPT !.action = "examine"]
    ELSE command

\* quill's CommandParser._rule_based_parse; exits are the visible exits of the scene
Quill_rule_based_parse(user_input, exits) ==
    LET words == Split(Lower(user_input))
        parts == extract_command_parts(words)
        canonical == canonical_action(parts.action)
    IN  IF words = <<>> THEN [action |-> "invalid"]
        ELSE IF Lower(user_input) \in {"look around", "look around for clues"}
        THEN [action |-> "look"]
        ELSE IF Len(words) = 1 /\ InList(words[1], Lookup(verbs, "inventory"))
        THEN [action |-> "inventory"]
        ELSE IF Len(words) = 1 /\ InList(words[1], Lookup(verbs, "look"))
        THEN [action |-> "look"]
        ELSE IF Len(words) = 1 /\ HasKey(exits, words[1])
        THEN [action |-> "go", target |-> words[1]]
        ELSE IF InList(parts.action, Lookup(verbs, "inventory")) THEN [action |-> "inventory"]
        ELSE IF InList(parts.action, Lookup(verbs, "look")) /\ parts.target = ""
        THEN [action |-> "look"]
        ELSE IF canonical = "" THEN [action |-> "invalid", original_input |-> user_input]
        ELSE LookToExamine(BuildCommand(canonical, parts.target, parts.indirect))

\* s.find(sub): the 1-based index of the first occurrence, 0 when there is none
Find(sub, s) ==
    LET At(i) == SubSeq(s, i, i + Len(sub) - 1) = sub
        hits == SelectSeq([i \in 1..(Len(s) - Len(sub) + 1) |-> i], At)
    IN  IF hits = <<>> THEN 0 ELSE hits[1]

\* s.rfind(sub): the 1-based index of the last occurrence, 0 when there is none
RFind(sub, s) ==
    LET At(i) == SubSeq(s, i, i + Len(sub) - 1) = sub
        hits == SelectSeq([i \in 1..(Len(s) - Len(sub) + 1) |-> i], At)
    IN  IF hits = <<>> THEN 0 ELSE hits[Len(hits)]

StartsWith(s, prefix) == SubSeq(s, 1, Len(prefix)) = prefix

\* re.search(r"look at(?: the)? (.+)", s): group 1 of the leftmost match, "" for no match
look_at_match(s) ==
    LET Rest(i) == SubSeq(s, i + 7, Len(s))
        Group(i) == IF StartsWith(Rest(i), " the ") /\ Len(Rest(i)) > 5
                    THEN SubSeq(Rest(i), 6, Len(Rest(i)))
                    ELSE IF StartsWith(Rest(i), " ") /\ Len(Rest(i)) > 1
                    THEN SubSeq(Rest(i), 2, Len(Rest(i)))
                    ELSE ""
        hits == {i \in 1..(Len(s) - 6) : SubSeq(s, i, i + 6) = "look at" /\ Group(i) # ""}
    IN  IF hits = {} THEN "" ELSE Group(CHOOSE i \in hits : \A j \in hits : i <= j)

\* the first visible exit whose lowered name occurs in the input, "" when none does
ExitNamedIn(normalized_input, exits) ==
    LET Named(e) == Contains(Lower(e.k), normalized_input)
        i == FirstIndex([n \in 1..Len(exits) |-> Named(exits[n])])
    IN  IF i = 0 THEN "" ELSE exits[i].k

\* soliloquy's CommandParser._rule_based_parse
Soliloquy_rule_based_parse(user_input, exits) ==
    LET n == Lower(user_input)
        words == Split(n)
        parts == extract_command_parts(words)
        canonical == canonical_action(parts.action)
        In(phrase) == Contains(phrase, n)
    IN  IF words = <<>> THEN [action |-> "invalid"]
        ELSE IF (In("go up") \/ In("climb")) /\ (In("staircase") \/ In("stairs"))
        THEN [action |-> "go", target |-> "staircase"]
        ELSE IF (In("go to") \/ In("head to") \/ In("lets go")) /\ ExitNamedIn(n, exits) # ""
        THEN [action |-> "go", target |-> ExitNamedIn(n, exits)]
        ELSE IF In("look around") \/ In("search") \/ In("check around") \/ In("look for clues")
        THEN [action |-> "look"]
        ELSE IF look_at_match(n) # ""
        THEN [action |-> "examine", target |-> Strip(look_at_match(n))]
        ELSE IF In("inventory") \/ In("my items") \/ In("what do i have")
        THEN [action |-> "inventory"]
        ELSE IF Len(words) = 1 /\ InList(words[1], Lookup(verbs, "inventory"))
        THEN [action |-> "inventory"]
        ELSE IF Len(words) = 1 /\ InList(words[1], Lookup(verbs, "look"))
        THEN [action |-> "look"]
        ELSE IF Len(words) = 1 /\ HasKey(exits, words[1])
        THEN [action |-> "go", target |-> words[1]]
        ELSE IF InList(parts.action, Lookup(verbs, "inventory")) THEN [action |-> "inventory"]
        ELSE IF InList(parts.action, Lookup(verbs, "look")) /\ parts.target = ""
        THEN [action |-> "look"]
        ELSE IF canonical = ""
        THEN IF ExitNamedIn(n, exits) # ""
             THEN [action |-> "go", target |-> ExitNamedIn(n, exits)]
             ELSE [action |-> "invalid", original_input |-> user_input]
        ELSE BuildCommand(canonical, parts.target, parts.indirect)

\* the rule-based tier of the running variant
rule_based_parse(v, user_input, exits) ==
    IF v = "quill" THEN Quill_rule_based_parse(user_input, exits)
    ELSE Soliloquy_rule_based_parse(user_input, exits)

-----------------------------------------------------------------------------
(* The generative and the API backend: what comes back, and what the parser *)
(* makes of it.  An outcome is [raises |-> TRUE] or [text |-> the reply].   *)

\* the JSON objects the backends' replies may hold; json.loads of any other
\* text of BackendReplies raises JSONDecodeError
JsonObjects == <<
    [action |-> "look"],
    [action |-> "look", target |-> "lamp"],
    [action |-> "examine", target |-> "desk"],
    [action |-> "go", target |-> "library_door"],
    [action |-> "take", target |-> "gem"],
    [action |-> "pull", target |-> "lever"],
    [action |-> "search", target |-> "desk"],
    [action |-> "open", target |-> "trapdoor"],
    [action |-> "drink"],
    [action |-> "eat", target |-> "lamp"],
    [action |-> "trigger_event", event_id |-> "pull_lever"],
    [action |-> "trigger_event", event_id |-> "fall"],
    [action |-> "trigger_event", event_id |-> "nowhere"],
    [action |-> "trigger_event", event_id |-> "lost"],
    [action |-> "read"],
    [action |-> "dance"],
    [action |-> ""],
    [target |-> "lamp"] >>

JsonKeys == <<"action", "target", "indirect_target", "event_id">>

\* json.dumps of a command
RECURSIVE DumpKeys(_, _, _)
DumpKeys(obj, keys, first) ==
    IF keys = <<>> THEN ""
    ELSE IF Head(keys) \in DOMAIN obj
    THEN (IF first THEN "" ELSE ", ")
         \o "\"" \o Head(keys) \o "\": \"" \o obj[Head(keys)] \o "\""
         \o DumpKeys(obj, Tail(keys), FALSE)
    ELSE DumpKeys(obj, Tail(keys), first)

Dumps(obj) == "{" \o DumpKeys(obj, JsonKeys, TRUE) \o "}"

\* the text of each object
JsonTexts == [i \in 1..Len(JsonObjects) |-> Dumps(JsonObjects[i])]

\* json.loads: [ok |-> TRUE, value |-> the object], or ok FALSE for JSONDecodeError
json_loads(text) ==
    LET Is(i) == JsonTexts[i] = text
    IN  IF \E i \in 1..Len(JsonObjects) : Is(i)
        THEN [ok |-> TRUE, value |-> JsonObjects[CHOOSE i \in 1..Len(JsonObjects) : Is(i)]]
        ELSE [ok |-> FALSE]

\* the replies a backend may give: each object bare, two of them wrapped in
\* prose, text without braces, braces around text that is no JSON, two objects
BackendReplies ==
    {Dumps(JsonObjects[i]) : i \in 1..Len(JsonObjects)}
    \cup {"Sure! " \o Dumps(JsonObjects[4]) \o " Done.",
          "I cannot parse that.",
          "{action: go}",
          "} {",
          Dumps(JsonObjects[1]) \o " or " \o Dumps(JsonObjects[4])}

BackendOutcomes == {[raises |-> TRUE]} \cup {[text |-> t] : t \in BackendReplies}

\* the extraction both backends share: from the first { to the last }
ExtractJson(response) ==
    IF Find("{", response) # 0 /\ RFind("}", response) # 0
    THEN SubSeq(response, Find("{", response), RFind("}", response))
    ELSE ""

\* for each reply, the text extracted from it and what json.loads makes of that text
ReplyJson == [t \in BackendReplies |-> ExtractJson(Strip(t))]

ReplyLoaded == [t \in BackendReplies |-> json_loads(ReplyJson[t])]

\* what a tier hands back when an exception leaves it
Raised == [raised |-> TRUE]

\* quill's CommandParser._neural_parse: an exception of the model leaves it
Quill_neural_parse(outcome, user_input, exits) ==
    LET json_str == ReplyJson[outcome.text]
        loaded == ReplyLoaded[outcome.text]
    IN  IF "raises" \in DOMAIN outcome THEN Raised
        ELSE IF json_str # "" /\ loaded.ok /\ "action" \in DOMAIN loaded.value
        THEN loaded.value
        ELSE Quill_rule_based_parse(user_input, exits)

\* quill's CommandParser._api_parse: it catches every exception itself
Quill_api_parse(outcome, user_input, exits) ==
    LET json_str == ReplyJson[outcome.text]
        loaded == ReplyLoaded[outcome.text]
    IN  IF "raises" \in DOMAIN outcome THEN Quill_rule_based_parse(user_input, exits)
        ELSE IF json_str # "" /\ loaded.ok /\ "action" \in DOMAIN loaded.value
        THEN loaded.value
        ELSE Quill_rule_based_parse(user_input, exits)

\* soliloquy's CommandParser._neural_parse: look with a target becomes examine
Soliloquy_neural_parse(outcome, user_input, exits) ==
    LET json_str == ReplyJson[outcome.text]
        loaded == ReplyLoaded[outcome.text]
    IN  IF "raises" \in DOMAIN outcome THEN Raised
        ELSE IF json_str # "" /\ loaded.ok /\ "action" \in DOMAIN loaded.value
        THEN LookToExamine(loaded.value)
        ELSE Soliloquy_rule_based_parse(user_input, exits)

\* the tier parse tries first when the parser type is local or api
Backend(v, ptype, outcome, user_input, exits) ==
    IF v = "soliloquy" THEN Soliloquy_neural_parse(outcome, user_input, exits)
    ELSE IF ptype = "local" THEN Quill_neural_parse(outcome, user_input, exits)
    ELSE Quill_api_parse(outcome, user_input, exits)

\* a parse without the except clauses: what the backend tier hands back leaves it
parse_NoCatch(v, ptype, outcome, user_input, exits) ==
    IF ptype \in {"local", "api"} THEN Backend(v, ptype, outcome, user_input, exits)
    ELSE rule_based_parse(v, user_input, exits)

\* CommandParser.parse
parse(v, ptype, outcome, user_input, exits) ==
    LET command == Backend(v, ptype, outcome, user_input, exits)
    IN  IF ptype \in {"local", "api"} /\ "raised" \notin DOMAIN command
        THEN command
        ELSE rule_based_parse(v, user_input, exits)

-----------------------------------------------------------------------------
(* The session: QuillEngine.start_game / SoliloquyEngine.start_game *)

\* the lines a player types at the prompt, as input() returns them
CommandInputs ==
    { "look", "look around", "examine lamp", "look at lamp", "examine desk",
      "go library_door", "go Library_Door", "go trapdoor", "go north", "go hall_door",
      "go ladder", "go to hall_door", "library_door", "take key", "take brass key",
      "take statue", "take gem", "take ghost", "use key", "use key on door",
      "use sword", "talk elder", "talk to elder", "talk guard", "inventory",
      "drop key", "xyzzy quuxify", "search desk", " take key ", "examine key" }

QuitInputs == { "quit", "QUIT", " Exit ", "q", "Q" }

BlankInputs == { "", "   " }

\* the lines a player types when a backend parses them
BackendInputs == { "take key", "xyzzy quuxify" }

\* the lines a player types at the dialogue menu
Choices == { "1", "2", " 2 ", "3", "0", "x", "" }

\* input("\n> ").strip() of each line, and its lower-case form
AllInputs == CommandInputs \cup QuitInputs \cup BlankInputs \cup BackendInputs

Stripped == [raw \in AllInputs |-> Strip(raw)]

\* the lines as typed: a quit test that compares case-sensitively
Lowered_AsTyped == Stripped

Lowered == [raw \in AllInputs |-> Lower(Stripped[raw])]

NoTurn == [kind |-> "none"]

\* Spinner.__init__ on a terminal, and the loop before its first turn: no
\* thread yet, nothing written.  The turns of Spec do not follow the spinner,
\* which every turn starts and stops again; SpecSpinner does, step by step.
SpinnerAtRest ==
    [interactive |-> TRUE, running |-> FALSE, spinner_thread |-> 0, threads |-> <<>>,
     pc |-> "input", path |-> "try", turns |-> 0, last |-> ""]

NoOutcome == [none |-> TRUE]

\* the engine state a handler starts from
EngineState ==
    [current_scene |-> current_scene, inventory |-> inventory, flags |-> flags,
     scene_items |-> scene_items, revealed_objects |-> revealed_objects,
     out |-> <<>>, raised |-> ""]

\* the variables take the values of the state a handler ended in
Becomes(S) ==
    /\ current_scene' = S.current_scene
    /\ inventory' = S.inventory
    /\ flags' = S.flags
    /\ scene_items' = S.scene_items
    /\ revealed_objects' = S.revealed_objects

\* the except clause of the game loop
Apology == [via |-> "print_error",
            text |-> "Sorry, something went wrong processing that command."]

\* what the turn rendered: the except clause adds the apology
TurnOutput_Silent(S) == S.out

TurnOutput(S) == IF S.raised # "" THEN Append(S.out, Apology) ELSE S.out

process_command(v, S, command, choice) ==
    IF v = "quill" THEN Quill_process_command(S, command, choice)
    ELSE Soliloquy_process_command(S, command, choice)

Init ==
    /\ game_dir \in GameDirs
    /\ variant \in {"quill", "soliloquy"}
    /\ parser_type \in IF variant = "quill" THEN {"basic", "local", "api"}
                       ELSE {"basic", "local"}
    /\ session = "idle"
    /\ game_running = FALSE
    /\ current_scene = ""
    /\ inventory = <<>>
    /\ flags = {}
    /\ scene_items = EmptyDict
    /\ revealed_objects = EmptyDict
    /\ turn = NoTurn
    /\ args = EmptyDict
    /\ ret = EmptyDict
    /\ spinner = SpinnerAtRest

\* start_game when load_game returns False: the manifest or the starting scene is missing
RefuseToStart ==
    /\ session = "idle"
    /\ ~ load_game(game_dir)
    /\ session' = "refused"
    /\ turn' = [kind |-> "refused",
                out |-> << [via |-> "print_error", text |-> "Failed to load game."] >>]
    /\ UNCHANGED <<game_dir, variant, parser_type, game_running, current_scene, inventory, flags,
                   scene_items, revealed_objects, args, ret, spinner>>

\* start_game when load_game returns True, up to the first prompt
StartGame ==
    /\ session = "idle"
    /\ load_game(game_dir)
    /\ session' = "running"
    /\ game_running' = TRUE
    /\ LET loaded == [EngineState EXCEPT
                         !.current_scene = game_dir.starting_scene,
                         !.scene_items = [id \in SceneIds |-> Keys(SceneData(id).items)],
                         !.revealed_objects = [id \in SceneIds |-> {}]]
           S == display_current_scene(loaded)
       IN  /\ Becomes(S)
           /\ turn' = [kind |-> "start", out |-> S.out]
    /\ UNCHANGED <<game_dir, variant, parser_type, args, ret, spinner>>

\* a turn whose input is empty after strip(): the loop continues
BlankTurn ==
    /\ game_running
    /\ \E raw \in BlankInputs :
           /\ Stripped[raw] = ""
           /\ turn' = [kind |-> "blank", input |-> raw, out |-> <<>>]
    /\ UNCHANGED <<game_dir, variant, parser_type, session, game_running, current_scene, inventory,
                   flags, scene_items, revealed_objects, args, ret, spinner>>

\* a turn whose input is a quit token: the loop ends before the parser runs
QuitTurn ==
    /\ game_running
    /\ \E raw \in QuitInputs \cup CommandInputs :
           /\ Stripped[raw] # ""
           /\ Lowered[raw] \in {"quit", "exit", "q"}
           /\ turn' = [kind |-> "quit", input |-> raw,
                       out |-> << [via |-> "print_info", text |-> "Thanks for playing!"] >>]
    /\ game_running' = FALSE
    /\ session' = "terminated"
    /\ UNCHANGED <<game_dir, variant, parser_type, current_scene, inventory, flags, scene_items,
                   revealed_objects, args, ret, spinner>>

\* any other turn: parse, dispatch, and catch what the handler raised
CommandTurn ==
    /\ game_running
    /\ \E raw \in IF parser_type = "basic" THEN CommandInputs \cup QuitInputs
                  ELSE BackendInputs \cup QuitInputs :
           /\ Stripped[raw] # ""
           /\ Lowered[raw] \notin {"quit", "exit", "q"}
           /\ \E outcome \in IF parser_type = "basic" THEN {NoOutcome} ELSE BackendOutcomes :
              \E exits \in {Scene_get_visible_exits(SceneData(current_scene),
                                                    revealed_objects[current_scene])} :
              \E command \in {parse(variant, parser_type, outcome, Stripped[raw], exits)} :
              \E choice \in IF Get(command, "action", "") = "talk" THEN Choices ELSE {""} :
              \E S \in {process_command(variant, EngineState, command, choice)} :
                  /\ Becomes(S)
                  /\ turn' = [kind |-> "command", input |-> raw, command |-> command,
                              choice |-> choice, raised |-> S.raised,
                              out |-> TurnOutput(S)]
    /\ UNCHANGED <<game_dir, variant, parser_type, session, game_running, args, ret, spinner>>

Next == RefuseToStart \/ StartGame \/ BlankTurn \/ QuitTurn \/ CommandTurn

Spec == Init /\ [][Next]_vars

-----------------------------------------------------------------------------
(* Calls of single functions.  args holds the arguments of the call, ret    *)
(* what came back; the session variables rest while a function is called.   *)

\* the session variables while single functions are called; at names the function
Resting(at) ==
    /\ game_dir = LoadedGameDir
    /\ variant = "quill"
    /\ parser_type = "basic"
    /\ session = at
    /\ game_running = FALSE
    /\ current_scene = ""
    /\ inventory = <<>>
    /\ flags = {}
    /\ scene_items = EmptyDict
    /\ revealed_objects = EmptyDict
    /\ turn = NoTurn

\* a call returns r
Returns(r) ==
    /\ ret' = r
    /\ UNCHANGED <<game_dir, variant, parser_type, session, game_running, current_scene, inventory,
                   flags, scene_items, revealed_objects, turn, args, spinner>>

\* the flags conditions and flag sets are drawn from
CondFlags == {"has_key", "met_elder", "searched_desk"}

\* the longest has_flags or lacks_flags list drawn
MaxListLen == 2

FlagLists == UNION {[1..n -> CondFlags] : n \in 0..MaxListLen}

\* conditions: has_flags and lacks_flags are each absent or a list
Conditions ==
    {EmptyDict}
    \cup {[has_flags |-> h] : h \in FlagLists}
    \cup {[lacks_flags |-> l] : l \in FlagLists}
    \cup {[has_flags |-> h, lacks_flags |-> l] : h \in FlagLists, l \in FlagLists}

InitCond ==
    /\ Resting("check_condition")
    /\ args \in {[condition |-> c, player_flags |-> F] : c \in Conditions, F \in SUBSET CondFlags}
    /\ ret = EmptyDict
    /\ spinner = SpinnerAtRest

CallSceneCheckCondition ==
    /\ session = "check_condition"
    /\ Returns([by |-> "Scene._check_condition",
                value |-> Scene_check_condition(args.condition, args.player_flags)])

CallCharacterCheckCondition ==
    /\ session = "check_condition"
    /\ Returns([by |-> "Character._check_condition",
                value |-> Character_check_condition(args.condition, args.player_flags)])

CallEngineCheckEventCondition ==
    /\ session = "check_condition"
    /\ Returns([by |-> "QuillEngine._check_event_condition",
                value |-> Engine_check_event_condition(args.condition, args.player_flags)])

NextCond ==
    CallSceneCheckCondition \/ CallCharacterCheckCondition \/ CallEngineCheckEventCondition

SpecCond == InitCond /\ [][NextCond]_vars

-----------------------------------------------------------------------------
(* Calls of the parser *)

\* lines only the parser is called with
ParseOnlyInputs ==
    { "look at the lamp", "inspect lamp", "Look At Lamp", "check desk for key",
      "xyzzy library_door", "please search", "say hello to elder",
      "put key in box on shelf", "use key on", "to elder" }

ParseInputs == {Stripped[raw] : raw \in CommandInputs} \cup ParseOnlyInputs

\* the visible exits of the scenes a call may come from: the hall before and
\* after the desk revealed the trapdoor, and the library
ExitContexts ==
    { Scene_get_visible_exits(HallData, {}),
      Scene_get_visible_exits(HallData, {"trapdoor", "drawer"}),
      Scene_get_visible_exits(LibraryData, {}) }

ParserTypes(v) == IF v = "quill" THEN {"basic", "local", "api"} ELSE {"basic", "local"}

ParseCalls ==
    UNION { UNION { { [v |-> v, ptype |-> ptype, outcome |-> outcome,
                       user_input |-> user_input, exits |-> exits] :
                          user_input \in ParseInputs, exits \in ExitContexts,
                          outcome \in IF ptype = "basic" THEN {NoOutcome}
                                      ELSE BackendOutcomes } :
                    ptype \in ParserTypes(v) } :
            v \in {"quill", "soliloquy"} }

InitParse ==
    /\ Resting("parse")
    /\ args \in ParseCalls
    /\ ret = EmptyDict
    /\ spinner = SpinnerAtRest

CallParse ==
    /\ session = "parse"
    /\ Returns([by |-> "parse",
                value |-> parse(args.v, args.ptype, args.outcome, args.user_input,
                                args.exits)])

CallRuleBasedParse ==
    /\ session = "parse"
    /\ Returns([by |-> "_rule_based_parse",
                value |-> rule_based_parse(args.v, args.user_input, args.exits)])

\* CommandParser._extract_command_parts(user_input.lower().split())
CallExtractCommandParts ==
    /\ session = "parse"
    /\ Split(Lower(args.user_input)) # <<>>
    /\ Returns([by |-> "_extract_command_parts",
                value |-> extract_command_parts(Split(Lower(args.user_input)))])

NextParse == CallParse \/ CallRuleBasedParse \/ CallExtractCommandParts

SpecParse == InitParse /\ [][NextParse]_vars

-----------------------------------------------------------------------------
(* Calls of the state resolution: Scene.get_description, Character.get_dialogue *)

\* the most states or dialogue_states an entity declares
MaxStates == 3

\* the conditions a declared state may carry; EmptyDict for a state without one
StateConditions ==
    { EmptyDict,
      [has_flags |-> <<"has_key">>],
      [lacks_flags |-> <<"has_key">>],
      [has_flags |-> <<"met_elder">>],
      [has_flags |-> <<"has_key">>, lacks_flags |-> <<"met_elder">>] }

StateIds == <<"first", "second", "third", "fourth", "fifth">>

\* the text of the state declared at position i, and the entity's default text
StateText(i) == "text of the " \o StateIds[i] \o " state"

DefaultText == "default text"

\* the declared states for a choice of conditions, in insertion order: a state
\* without a condition has no condition key
SceneStates(conds) ==
    [i \in 1..Len(conds) |->
        [k |-> StateIds[i],
         v |-> IF conds[i] = EmptyDict THEN [description |-> StateText(i)]
               ELSE [condition |-> conds[i], description |-> StateText(i)]]]

DialogueStates(conds) ==
    [i \in 1..Len(conds) |->
        [k |-> StateIds[i],
         v |-> IF conds[i] = EmptyDict THEN [text |-> StateText(i), options |-> <<>>]
               ELSE [condition |-> conds[i], text |-> StateText(i), options |-> <<>>]]]

InitStates ==
    /\ Resting("state_resolution")
    /\ args \in {[conds |-> c, player_flags |-> F] :
                    c \in UNION {[1..n -> StateConditions] : n \in 0..MaxStates},
                    F \in SUBSET {"has_key", "met_elder"}}
    /\ ret = EmptyDict
    /\ spinner = SpinnerAtRest

CallGetDescription ==
    /\ session = "state_resolution"
    /\ Returns([by |-> "Scene.get_description",
                value |-> Scene_get_description(
                              [description |-> DefaultText, states |-> SceneStates(args.conds)],
                              args.player_flags)])

CallGetDialogue ==
    /\ session = "state_resolution"
    /\ Returns([by |-> "Character.get_dialogue",
                value |-> Character_get_dialogue(
                              [dialogue |-> [text |-> DefaultText, options |-> <<>>],
                               dialogue_states |-> DialogueStates(args.conds)],
                              args.player_flags).text])

NextStates == CallGetDescription \/ CallGetDialogue

SpecStates == InitStates /\ [][NextStates]_vars

-----------------------------------------------------------------------------
(* Calls of the event machinery: Scene.check_event, QuillEngine.check_events *)
(* and the trigger_event branch of process_command, each from the same      *)
(* state.  ret gains one key per function called.                           *)

\* the action, target and indirect target check_events may be called with
EventActions == {"pull", "Pull", "pull chain", "PULL CHAIN", "pull chain on hook",
                 "push wall", "push"}

EventTargets == {"", "chain", "wall"}

EventIndirects == {"", "hook"}

\* the event ids a trigger_event command may carry
EventIds == {"creak", "rumble", "hook", "creak_again", "slide", "nowhere"}

EventCalls ==
    { [scene |-> "vault", player_flags |-> F, inventory |-> inv,
       action |-> a, target |-> tg, indirect_target |-> ind, event_id |-> e] :
          F \in SUBSET {"met_elder", "fell"}, inv \in {<<>>, <<"gem">>},
          a \in EventActions, tg \in EventTargets, ind \in EventIndirects,
          e \in EventIds }

InitEvents ==
    /\ Resting("events")
    /\ args \in EventCalls
    /\ ret = EmptyDict
    /\ spinner = SpinnerAtRest

\* the engine state the calls start from
CallState ==
    [current_scene |-> args.scene, inventory |-> args.inventory, flags |-> args.player_flags,
     scene_items |-> [id \in SceneIds |-> Keys(SceneData(id).items)],
     revealed_objects |-> [id \in SceneIds |-> {}],
     out |-> <<>>, raised |-> ""]

\* the function called returns value; ret keeps what the others returned
ReturnsUnder(key, value) ==
    /\ key \notin DOMAIN ret
    /\ Returns([k \in DOMAIN ret \cup {key} |-> IF k = key THEN value ELSE ret[k]])

\* Scene.check_event(trigger, player_flags): the id of the event returned
CallSceneCheckEvent ==
    /\ session = "events"
    /\ LET i == Scene_check_event(SceneData(args.scene), args.action, args.player_flags)
       IN  ReturnsUnder("check_event",
                        [event_id |-> IF i = 0 THEN "None"
                                      ELSE SceneData(args.scene).events[i].k])

\* QuillEngine.check_events(action, target, indirect_target)
CallCheckEvents ==
    /\ session = "events"
    /\ ReturnsUnder("check_events",
                    check_events(CallState, args.action, args.target, args.indirect_target))

\* QuillEngine.process_command({action: trigger_event, event_id: ...})
CallTriggerEvent ==
    /\ session = "events"
    /\ ReturnsUnder("trigger_event",
                    Quill_process_command(
                        CallState, [action |-> "trigger_event", event_id |-> args.event_id], ""))

NextEvents == CallSceneCheckEvent \/ CallCheckEvents \/ CallTriggerEvent

SpecEvents == InitEvents /\ [][NextEvents]_vars

-----------------------------------------------------------------------------
\* Calls of the handlers of a verb on a thing of the scene: the secondary
\* handlers (eat, drink, push, pull, search, open, close) and examine

SecondaryVerbs == {"eat", "drink", "push", "pull", "search", "open", "close"}

HandlerVerbs == SecondaryVerbs \cup {"examine"}

HandlerTargets ==
    {"", "desk", "lamp", "drawer", "lever", "trapdoor", "moss", "wall", "vent", "crate", "hatch"}

HandlerCalls ==
    { [scene |-> sc, player_flags |-> F, inventory |-> inv, action |-> a, target |-> tg] :
          sc \in {"hall", "vault"}, F \in SUBSET {"searched_desk", "met_elder"},
          inv \in {<<>>, <<"key">>}, a \in HandlerVerbs, tg \in HandlerTargets }

InitHandlers ==
    /\ Resting("handlers")
    /\ args \in HandlerCalls
    /\ ret = EmptyDict
    /\ spinner = SpinnerAtRest

\* QuillEngine.process_command({action: <secondary verb>, target: <target>})
CallSecondaryHandler ==
    /\ session = "handlers"
    /\ ret = EmptyDict
    /\ args.action \in SecondaryVerbs
    /\ Returns(Quill_process_command(
                   CallState, [action |-> args.action, target |-> args.target], ""))

\* QuillEngine.process_command({action: examine, target: <target>})
CallExamine ==
    /\ session = "handlers"
    /\ ret = EmptyDict
    /\ args.action = "examine"
    /\ Returns(Quill_process_command(
                   CallState, [action |-> "examine", target |-> args.target], ""))

NextHandlers == CallSecondaryHandler \/ CallExamine

SpecHandlers == InitHandlers /\ [][NextHandlers]_vars

-----------------------------------------------------------------------------
(* The spinner.  A turn of the game loop starts the spinner, parses, stops   *)
(* the spinner and dispatches; an exception of the try block leads to a      *)
(* second stop and the apology.  On a terminal start() runs _spin in a       *)
(* thread of its own.  spinner.pc is the loop's position, spinner.path the   *)
(* block it is in, spinner.threads the position of every thread started so   *)
(* far in _spin ("test", "write", "sleep", "done"), spinner.last what was    *)
(* written to the terminal last.                                             *)

\* the most turns a session of SpecSpinner begins
MaxTurns == 3

\* the spinner takes the value s; nothing else changes
SpinnerBecomes(s) ==
    /\ spinner' = s
    /\ UNCHANGED <<game_dir, variant, parser_type, session, game_running, current_scene, inventory,
                   flags, scene_items, revealed_objects, turn, args, ret>>

\* where the loop goes on when stop() returns: process_command in the try
\* block, the apology in the except clause
AfterStop == IF spinner.path = "try" THEN "dispatch" ELSE "apology"

InitSpinner ==
    /\ Resting("spinner")
    /\ args = EmptyDict
    /\ ret = EmptyDict
    /\ spinner \in {[SpinnerAtRest EXCEPT !.interactive = i] : i \in BOOLEAN}

\* self.spinner.start("Thinking"): Spinner.start
SpinnerStart ==
    /\ session = "spinner"
    /\ spinner.pc = "input"
    /\ spinner.turns < MaxTurns
    /\ SpinnerBecomes(
           IF ~ spinner.interactive
           THEN [spinner EXCEPT !.pc = "parse", !.path = "try", !.turns = @ + 1,
                                !.last = "message"]
           ELSE IF ~ spinner.running
           THEN [spinner EXCEPT !.pc = "parse", !.path = "try", !.turns = @ + 1,
                                !.running = TRUE,
                                !.threads = Append(@, "test"),
                                !.spinner_thread = Len(spinner.threads) + 1]
           ELSE [spinner EXCEPT !.pc = "parse", !.path = "try", !.turns = @ + 1])

\* command_parser.parse returns
ParseReturns ==
    /\ session = "spinner"
    /\ spinner.pc = "parse"
    /\ SpinnerBecomes([spinner EXCEPT !.pc = "stop"])

\* command_parser.parse raises: the except clause runs
ParseRaises ==
    /\ session = "spinner"
    /\ spinner.pc = "parse"
    /\ SpinnerBecomes([spinner EXCEPT !.pc = "stop", !.path = "except"])

\* a stop() that does not wait for the thread
SpinnerStop_NoJoin ==
    /\ session = "spinner"
    /\ spinner.pc = "stop"
    /\ SpinnerBecomes(
           IF spinner.interactive /\ spinner.running
           THEN [spinner EXCEPT !.running = FALSE, !.pc = "clear"]
           ELSE [spinner EXCEPT !.pc = AfterStop])

\* Spinner.stop up to the join: return at once when not on a terminal or not
\* running, else clear the running flag
SpinnerStop ==
    /\ session = "spinner"
    /\ spinner.pc = "stop"
    /\ SpinnerBecomes(
           IF spinner.interactive /\ spinner.running
           THEN [spinner EXCEPT !.running = FALSE,
                                !.pc = IF spinner.spinner_thread # 0 THEN "join" ELSE "clear"]
           ELSE [spinner EXCEPT !.pc = AfterStop])

\* self.spinner_thread.join() returns once the thread has ended
SpinnerJoin ==
    /\ session = "spinner"
    /\ spinner.pc = "join"
    /\ spinner.threads[spinner.spinner_thread] = "done"
    /\ SpinnerBecomes([spinner EXCEPT !.pc = "clear"])

\* stop() clears the spinner line and returns
SpinnerClear ==
    /\ session = "spinner"
    /\ spinner.pc = "clear"
    /\ SpinnerBecomes([spinner EXCEPT !.pc = AfterStop, !.last = "clear"])

\* process_command renders the turn's result and returns
DispatchRenders ==
    /\ session = "spinner"
    /\ spinner.pc = "dispatch"
    /\ SpinnerBecomes([spinner EXCEPT !.pc = "input", !.last = "result"])

\* process_command raises, before or after it rendered something
DispatchRaises ==
    /\ session = "spinner"
    /\ spinner.pc = "dispatch"
    /\ \E rendered \in {spinner.last, "result"} :
           SpinnerBecomes([spinner EXCEPT !.pc = "stop", !.path = "except", !.last = rendered])

\* the except clause renders the apology; the loop goes on
RenderApology ==
    /\ session = "spinner"
    /\ spinner.pc = "apology"
    /\ SpinnerBecomes([spinner EXCEPT !.pc = "input", !.last = "apology"])

\* Spinner._spin: the test of the while loop
SpinTest ==
    /\ session = "spinner"
    /\ \E i \in 1..Len(spinner.threads) :
           /\ spinner.threads[i] = "test"
           /\ SpinnerBecomes([spinner EXCEPT
                                 !.threads[i] = IF spinner.running THEN "write" ELSE "done"])

\* Spinner._spin: sys.stdout.write of a frame, and the flush
SpinWrite ==
    /\ session = "spinner"
    /\ \E i \in 1..Len(spinner.threads) :
           /\ spinner.threads[i] = "write"
           /\ SpinnerBecomes([spinner EXCEPT !.threads[i] = "sleep", !.last = "frame"])

\* Spinner._spin: time.sleep returns
SpinSleep ==
    /\ session = "spinner"
    /\ \E i \in 1..Len(spinner.threads) :
           /\ spinner.threads[i] = "sleep"
           /\ SpinnerBecomes([spinner EXCEPT !.threads[i] = "test"])

\* the steps of stop(), and the steps of the spinner threads
StopSteps == SpinnerStop \/ SpinnerJoin \/ SpinnerClear

SpinSteps == SpinTest \/ SpinWrite \/ SpinSleep

NextSpinner ==
    \/ SpinnerStart \/ ParseReturns \/ ParseRaises
    \/ SpinnerStop \/ SpinnerJoin \/ SpinnerClear
    \/ DispatchRenders \/ DispatchRaises \/ RenderApology
    \/ SpinTest \/ SpinWrite \/ SpinSleep

\* the main thread inside stop() and every spinner thread keep being scheduled
SpecSpinner ==
    InitSpinner /\ [][NextSpinner]_vars /\ WF_vars(StopSteps) /\ WF_vars(SpinSteps)

-----------------------------------------------------------------------------
(* C1 *)

\* every flag of has_flags is in F and no flag of lacks_flags is in F, an
\* absent list being empty
ConditionMet(condition, F) ==
    /\ \A i \in 1..Len(Get(condition, "has_flags", <<>>)) : condition.has_flags[i] \in F
    /\ \A i \in 1..Len(Get(condition, "lacks_flags", <<>>)) : condition.lacks_flags[i] \notin F

\* C1: for every condition C and flag set F, each of Scene._check_condition,
\* Character._check_condition and the engine's _check_event_condition returns
\* true exactly when every flag of C.has_flags is in F and no flag of
\* C.lacks_flags is in F (so the three agree, and an empty or absent condition
\* is true for every F).
C1_ConditionCheck ==
    (session = "check_condition" /\ ret # EmptyDict)
        => /\ ret.value = ConditionMet(args.condition, args.player_flags)
           /\ (args.condition = EmptyDict => ret.value = TRUE)

\* a call of the engine's check where the required flag is held and a
\* forbidden flag is held too: the answer is false
C1_Witness ==
    /\ session = "check_condition"
    /\ ret # EmptyDict
    /\ ret.by = "QuillEngine._check_event_condition"
    /\ args.condition = [has_flags |-> <<"has_key">>, lacks_flags |-> <<"met_elder">>]
    /\ args.player_flags = {"has_key", "met_elder"}
    /\ ret.value = FALSE

-----------------------------------------------------------------------------
(* Vocabulary of the properties of a turn *)

\* the turn t rendered text
Rendered(t, text) ==
    \E i \in 1..Len(t.out) : "text" \in DOMAIN t.out[i] /\ t.out[i].text = text

\* the number of times x occurs in a list
Count(list, x) == Cardinality({i \in 1..Len(list) : list[i] = x})

\* the step is a turn of the running session that parsed and dispatched a command
CommandStep == session = "running" /\ turn'.kind = "command"

-----------------------------------------------------------------------------
(* C2 *)

GoLibraryDoor == [action |-> "go", target |-> "library_door"]

\* C2: in the hall, whose exit library_door targets library and is locked with
\* condition has_flags:[has_key] and the message "It's locked.", the command
\* go library_door executed while has_key is not in the player's flags renders
\* the lock message and leaves the current scene unchanged; executed once
\* has_key is in the player's flags it sets the current scene to library.
C2_LockedExitScenario ==
    [][ (CommandStep /\ current_scene = "hall" /\ turn'.command = GoLibraryDoor)
            => IF "has_key" \notin flags
               THEN Rendered(turn', "It's locked.") /\ current_scene' = current_scene
               ELSE current_scene' = "library" ]_vars

-----------------------------------------------------------------------------
(* C3 *)

\* the item a take of this step resolves to in the current scene, "" for none
TakenId ==
    Scene_find_item(SceneData(current_scene), scene_items[current_scene],
                    Get(turn'.command, "target", ""))

\* the step is a take that finds its item in the current scene, takeable and
\* not locked
TakeSucceeds ==
    /\ CommandStep
    /\ Get(turn'.command, "action", "") = "take"
    /\ TakenId # ""
    /\ HasKey(ItemRegistry, TakenId)
    /\ Get(Lookup(ItemRegistry, TakenId), "takeable", TRUE)
    /\ ~ Scene_is_item_locked(SceneData(current_scene), TakenId, flags)

\* C3: after every successful take (item found in the current scene, takeable,
\* not locked) the item id is absent from that scene's item map and occurs
\* exactly once in the player inventory, also when the id was in the
\* inventory before the take.
C3_TakeOwnership ==
    [][ TakeSucceeds
            => /\ ~ InList(TakenId, scene_items'[current_scene])
               /\ Count(inventory', TakenId) = 1
               /\ current_scene' = current_scene ]_vars

\* the gem was given by the elder before the key was taken, so it was in the
\* inventory already when this take of the gem from the hall succeeded
C3_Witness ==
    /\ session = "running"
    /\ turn.kind = "command"
    /\ turn.command = [action |-> "take", target |-> "gem"]
    /\ Rendered(turn, "You take the Gem.")
    /\ inventory = <<"token", "gem", "key">>
    /\ ~ InList("gem", scene_items["hall"])

-----------------------------------------------------------------------------
(* C4 *)

\* replies that hold no JSON, and the reply whose JSON has no action key
NotJsonReplies ==
    { "I cannot parse that.", "{action: go}", "} {",
      "{\"action\": \"look\"} or {\"action\": \"go\", \"target\": \"library_door\"}" }

NoActionReplies == { "{\"target\": \"lamp\"}" }

\* the backend raised, returned text that is not JSON, or JSON without an action
BackendFailed(outcome) ==
    \/ "raises" \in DOMAIN outcome
    \/ "text" \in DOMAIN outcome /\ outcome.text \in NotJsonReplies \cup NoActionReplies

\* C4: for every input and context, when the primary backend (local or api)
\* raises, returns text that is not JSON, or returns JSON without an action
\* key, parse returns exactly the command the rule-based tier returns for the
\* same input and context, and no exception leaves parse.
C4_ParserFallback ==
    (session = "parse" /\ ret # EmptyDict /\ ret.by = "parse"
     /\ args.ptype \in {"local", "api"} /\ BackendFailed(args.outcome))
        => /\ "raised" \notin DOMAIN ret.value
           /\ ret.value = rule_based_parse(args.v, args.user_input, args.exits)

\* the local model raised on "take key" and parse returned the rule-based command
C4_Witness ==
    /\ session = "parse"
    /\ ret # EmptyDict
    /\ ret.by = "parse"
    /\ args.v = "quill"
    /\ args.ptype = "local"
    /\ "raises" \in DOMAIN args.outcome
    /\ args.user_input = "take key"
    /\ ret.value = [action |-> "take", target |-> "key"]

-----------------------------------------------------------------------------
(* C5 *)

\* C5: the rule-based parser maps both "examine lamp" and "look at lamp" to
\* {action: examine, target: lamp}, and never returns a look action that
\* carries a target: it is rewritten to examine.
C5_LookBecomesExamine ==
    (session = "parse" /\ ret # EmptyDict /\ ret.by = "_rule_based_parse")
        => /\ args.user_input \in {"examine lamp", "look at lamp"}
                  => ret.value = [action |-> "examine", target |-> "lamp"]
           /\ ret.value.action = "look" => "target" \notin DOMAIN ret.value

-----------------------------------------------------------------------------
(* C6 *)

\* the first token of the line is in no verb-synonym list
NoVerb(user_input) ==
    \A i \in 1..Len(verbs) : ~ InList(Split(Lower(user_input))[1], verbs[i].v)

\* the line contains the name of no exit visible before the step
NoExitName(user_input) ==
    LET exits == Scene_get_visible_exits(SceneData(current_scene),
                                         revealed_objects[current_scene])
    IN  \A i \in 1..Len(exits) : ~ Contains(Lower(exits[i].k), Lower(user_input))

\* the line contains one of the phrasings the rule-based tier special-cases
SpecialPhrasing(user_input) ==
    LET Has(phrase) == Contains(phrase, Lower(user_input))
    IN  \/ (Has("go up") \/ Has("climb")) /\ (Has("staircase") \/ Has("stairs"))
        \/ Has("look around") \/ Has("search") \/ Has("check around")
        \/ Has("look for clues") \/ Has("look at ")
        \/ Has("inventory") \/ Has("my items") \/ Has("what do i have")

\* dispatching the invalid command renders the not-understood message and
\* leaves the game state unchanged
InvalidIsInert ==
    Get(turn'.command, "action", "") = "invalid"
        => /\ Rendered(turn', "I don't know how to 'invalid'.")
           /\ UNCHANGED game_state

\* C6 as stated: input whose first token is in no verb-synonym list and which
\* contains no visible exit name parses to {action: invalid, original_input:
\* the text}; dispatching that command renders a not-understood message and
\* leaves current scene, inventory, flags, item maps and revealed_objects
\* unchanged.
C6_UnrecognizedInput ==
    [][ CommandStep
            => /\ (parser_type = "basic"
                   /\ NoVerb(Stripped[turn'.input]) /\ NoExitName(Stripped[turn'.input]))
                      => turn'.command = [action |-> "invalid",
                                          original_input |-> Stripped[turn'.input]]
               /\ InvalidIsInert ]_vars

\* C6 amended: input whose first token is in no verb-synonym list and which
\* contains no visible exit name and none of the special-cased phrasings
\* parses to {action: invalid, original_input: the text}; dispatching that
\* command renders a not-understood message and leaves the game state unchanged.
C6_UnrecognizedInputAmended ==
    [][ CommandStep
            => /\ (parser_type = "basic"
                   /\ NoVerb(Stripped[turn'.input]) /\ NoExitName(Stripped[turn'.input])
                   /\ ~ SpecialPhrasing(Stripped[turn'.input]))
                      => turn'.command = [action |-> "invalid",
                                          original_input |-> Stripped[turn'.input]]
               /\ InvalidIsInert ]_vars

\* "xyzzy quuxify" typed in the library with the key in hand
C6_Witness ==
    /\ session = "running"
    /\ parser_type = "basic"
    /\ turn.kind = "command"
    /\ turn.input = "xyzzy quuxify"
    /\ turn.command = [action |-> "invalid", original_input |-> "xyzzy quuxify"]
    /\ Rendered(turn, "I don't know how to 'invalid'.")
    /\ current_scene = "library"
    /\ inventory = <<"key">>

-----------------------------------------------------------------------------
(* C7 *)

\* the line is a quit token after trimming, in any letter case
IsQuitToken(raw) == Lower(Strip(raw)) \in {"quit", "exit", "q"}

\* C7: in every turn and for every parser backend, raw input that after
\* trimming equals quit, exit or q in any letter case ends the session before
\* the parser runs: the turn is no command turn, the running flag becomes
\* false and the game state is unchanged; and no step leaves a terminated
\* session.
C7_QuitTerminates ==
    [][ /\ session # "terminated"
        /\ (session = "running" /\ turn'.kind \in {"command", "quit", "blank"}
            /\ IsQuitToken(turn'.input))
               => /\ turn'.kind = "quit"
                  /\ ~ game_running'
                  /\ session' = "terminated"
                  /\ UNCHANGED game_state
        /\ session' = "terminated" => ~ game_running' ]_vars

\* " Exit " typed to the API-backed parser with the key in hand
C7_Witness ==
    /\ session = "terminated"
    /\ ~ game_running
    /\ parser_type = "api"
    /\ turn.kind = "quit"
    /\ turn.input = " Exit "
    /\ inventory = <<"key">>

-----------------------------------------------------------------------------
(* C8 *)

\* C8: an exception raised while a command is parsed or dispatched is caught
\* at the turn boundary: the apology is the last thing rendered, the running
\* flag stays true and the session keeps running; the running flag falls only
\* in a turn that read a quit token.
C8_ExceptionsCaught ==
    [][ /\ (CommandStep /\ turn'.raised # "")
               => /\ turn'.out[Len(turn'.out)] = Apology
                  /\ game_running'
                  /\ session' = "running"
        /\ (game_running /\ ~ game_running') => turn'.kind = "quit" ]_vars

\* examining the key in hand raised KeyError and the session runs on
C8_Witness ==
    /\ session = "running"
    /\ game_running
    /\ turn.kind = "command"
    /\ turn.command = [action |-> "examine", target |-> "key"]
    /\ turn.raised = "KeyError"
    /\ turn.out = << Apology >>

-----------------------------------------------------------------------------
(* C9 *)

\* the messages of the locks of the world
LockMessages == { "It's locked.", "The gem is behind glass." }

\* the turn t rendered a resolution error: an error message, or a lock's message
ResolutionError(t) ==
    /\ t.kind = "command"
    /\ t.raised = ""
    /\ \E i \in 1..Len(t.out) :
           \/ t.out[i].via = "print_error"
           \/ "text" \in DOMAIN t.out[i] /\ t.out[i].text \in LockMessages

\* C9: a command that ends in a resolution error (unrecognized action, absent
\* target of go, take, examine, use or talk, a go or take blocked by a lock)
\* changes neither current scene, inventory, flags, scene item maps nor
\* revealed_objects.
C9_ResolutionErrorsFrame ==
    [][ (session = "running" /\ ResolutionError(turn')) => UNCHANGED game_state ]_vars

\* the same, for the quill engine alone
C9_QuillOnly ==
    [][ (session = "running" /\ variant = "quill" /\ ResolutionError(turn'))
            => UNCHANGED game_state ]_vars

-----------------------------------------------------------------------------
(* C10 *)

\* the position of the first declared state whose condition is true, 0 for none
FirstTrue ==
    LET True(i) == ConditionMet(args.conds[i], args.player_flags)
    IN  IF \E i \in 1..Len(args.conds) : True(i)
        THEN CHOOSE i \in 1..Len(args.conds) : True(i) /\ \A j \in 1..(i - 1) : ~ True(j)
        ELSE 0

\* C10: get_description and get_dialogue return the text of the first declared
\* state, in insertion order, whose condition is true for the player's flags,
\* also when a later state's condition is true as well, and the entity's
\* default text exactly when no state's condition is true.
C10_FirstMatchWins ==
    (session = "state_resolution" /\ ret # EmptyDict)
        => /\ ret.value = IF FirstTrue = 0 THEN DefaultText ELSE StateText(FirstTrue)
           /\ ret.value = DefaultText <=> FirstTrue = 0

\* the second and the third state are both true and get_dialogue returns the second
C10_Witness ==
    /\ session = "state_resolution"
    /\ ret # EmptyDict
    /\ ret.by = "Character.get_dialogue"
    /\ args.conds = << [has_flags |-> <<"met_elder">>], [has_flags |-> <<"has_key">>],
                       EmptyDict >>
    /\ args.player_flags = {"has_key"}
    /\ ret.value = StateText(2)

-----------------------------------------------------------------------------
(* C11 *)

\* the step examines the scene object the turn before it examined
ExaminesAgain ==
    /\ CommandStep
    /\ turn.kind = "command"
    /\ Get(turn.command, "action", "") = "examine"
    /\ turn'.command = turn.command
    /\ Scene_has_object(SceneData(current_scene), Get(turn.command, "target", ""))

\* C11: examine is idempotent on state: examining the same scene object twice
\* in a row leaves revealed_objects and the player's flags exactly as they are
\* after the first examine.
C11_ExamineIdempotent ==
    [][ ExaminesAgain => /\ revealed_objects' = revealed_objects
                         /\ flags' = flags ]_vars

\* the desk was examined: it revealed the trapdoor and the drawer and set its flag
C11_Witness ==
    /\ session = "running"
    /\ turn.kind = "command"
    /\ turn.command = [action |-> "examine", target |-> "desk"]
    /\ Rendered(turn, "An oak desk.")
    /\ revealed_objects["hall"] = {"trapdoor", "drawer"}
    /\ "searched_desk" \in flags

-----------------------------------------------------------------------------
(* C12 *)

\* every option a character declares, in its default dialogue or in a dialogue
\* state, with the character's name
DeclaredOptions ==
    UNION { LET c == CharacterRegistry[i].v
                dialogues == <<c.dialogue>>
                             \o [n \in 1..Len(c.dialogue_states) |-> c.dialogue_states[n].v]
            IN  UNION { { [name |-> c.name, option |-> o] :
                              o \in Range(Get(dialogues[d], "options", <<>>)) } :
                        d \in 1..Len(dialogues) } :
            i \in 1..Len(CharacterRegistry) }

\* the flags an option's set_flag actions name
OptionFlags(option) ==
    { a.flag : a \in { x \in Range(Get(option, "actions", <<>>)) : x.type = "set_flag" } }

\* the items an option's give_item actions name, in list order
OptionItems(option) ==
    LET Gives(a) == a.type = "give_item"
        gifts == SelectSeq(Get(option, "actions", <<>>), Gives)
    IN  [n \in 1..Len(gifts) |-> gifts[n].item]

\* the turn rendered the response of the option: the option was chosen
Chose(t, co) == Rendered(t, co.name \o ": " \o co.option.response)

\* C12: when a talk turn ends with a valid choice, every action of the chosen
\* option is applied in list order and no action of another option is: the
\* flags grow by exactly the option's set_flag flags, and the inventory by
\* exactly the option's give_item items not yet held, appended in list order.
C12_DialogueActions ==
    [][ (CommandStep /\ Get(turn'.command, "action", "") = "talk")
            => \A co \in DeclaredOptions :
                   Chose(turn', co)
                       => LET NotHeld(id) == ~ InList(id, inventory)
                          IN  /\ flags' = flags \cup OptionFlags(co.option)
                              /\ inventory' = inventory
                                                  \o SelectSeq(OptionItems(co.option), NotHeld) ]_vars

\* the elder's first option was chosen: set_flag(met_elder), then give_item(token);
\* the second option's flag has_key is not set
C12_Witness ==
    /\ session = "running"
    /\ turn.kind = "command"
    /\ Get(turn.command, "action", "") = "talk"
    /\ Rendered(turn, "Elder: Then take this.")
    /\ Rendered(turn, "* Elder gives you the token.")
    /\ flags = {"met_elder"}
    /\ inventory = <<"token">>

-----------------------------------------------------------------------------
(* C13 *)

\* the position in a turn's renderings of the first rendering of text, 0 for none
RenderedAt(t, text) ==
    FirstIndex([n \in 1..Len(t.out) |-> "text" \in DOMAIN t.out[n] /\ t.out[n].text = text])

\* the renderings an event makes, in the order claimed: its message, then one
\* acquisition notice per item of items_add
EventRenderings(e) ==
    << [via |-> "typewriter", text |-> e.message] >>
    \o [n \in 1..Len(Get(e, "items_add", <<>>)) |->
           [via |-> "typewriter", text |-> "* You got: " \o ItemName(e.items_add[n])]]

\* the turn t rendered the effects of event e, applied to flags F, in the
\* order claimed, and the state after holds them
EventInOrder(t, e, F, flags_after, inventory_after) ==
    LET at == RenderedAt(t, e.message)
        expected == EventRenderings(e)
        next == at + Len(expected)
    IN  /\ next - 1 <= Len(t.out)
        /\ SubSeq(t.out, at, next - 1) = expected
        /\ Range(Get(e, "flags_set", <<>>)) \subseteq flags_after
        /\ Range(Get(e, "items_add", <<>>)) \subseteq Range(inventory_after)
        /\ ("change_scene" \in DOMAIN e /\ e.change_scene \in SceneIds)
               => /\ next <= Len(t.out)
                  /\ t.out[next].via = "scene"
                  /\ t.out[next].name = SceneData(e.change_scene).name
                  /\ t.out[next].text =
                         Scene_get_description(SceneData(e.change_scene),
                                               F \cup Range(Get(e, "flags_set", <<>>)))

\* C13: every applied event performs its effects in the order message render,
\* flags_set, items_add (one acquisition notice per item), change_scene; the
\* new scene is rendered after all flags and items of the event are applied,
\* with its description resolved against the updated flags.
C13_EventOrder ==
    [][ CommandStep
            => \A e \in { x \in Range(Keys(SceneData(current_scene).events)) :
                            "message" \in DOMAIN Lookup(SceneData(current_scene).events, x) } :
                   LET event == Lookup(SceneData(current_scene).events, e)
                   IN  Rendered(turn', event.message)
                           => EventInOrder(turn', event, flags, flags', inventory') ]_vars

\* the fall event was applied: message, flag fell, the gem with its notice, and
\* the cellar rendered with the description of its state for fell
C13_Witness ==
    /\ session = "running"
    /\ turn.kind = "command"
    /\ current_scene = "cellar"
    /\ RenderedAt(turn, "You fall.") = 1
    /\ RenderedAt(turn, "* You got: Gem") = 2
    /\ RenderedAt(turn, "A damp cellar; your ankle hurts.") = 3
    /\ "fell" \in flags
    /\ InList("gem", inventory)

-----------------------------------------------------------------------------
(* C14 *)

\* the step dispatches the command search desk in the hall, whose event
\* find_note is {trigger: "search desk", items_add: [note]} without a condition
SearchesDesk ==
    /\ CommandStep
    /\ current_scene = "hall"
    /\ turn'.command = [action |-> "search", target |-> "desk"]

\* C14: executing the command search desk puts note into the inventory and
\* renders an acquisition message; however often it is executed, note occurs
\* in the inventory exactly once, and an execution that finds note held
\* leaves the inventory as it is.
C14_SearchDeskOnce ==
    [][ /\ Count(inventory', "note") <= 1
        /\ SearchesDesk
               => /\ Count(inventory', "note") = 1
                  /\ Rendered(turn', "* You got: " \o ItemName("note"))
                  /\ InList("note", inventory) => inventory' = inventory ]_vars

\* search desk executed with note held since before the key was taken: a
\* repeated execution, after which note is held once
C14_Witness ==
    /\ session = "running"
    /\ turn.kind = "command"
    /\ turn.command = [action |-> "search", target |-> "desk"]
    /\ Rendered(turn, "* You got: Note")
    /\ inventory = <<"note", "key">>

-----------------------------------------------------------------------------
(* C15 *)

\* C15: in every reachable state no item id is both in a scene's item map and
\* in the player inventory: each item is held by exactly one container.
C15_SingleOwner ==
    session = "running"
        => \A s \in SceneIds : Range(scene_items[s]) \cap Range(inventory) = {}

-----------------------------------------------------------------------------
(* C16 *)

\* C16: after a drop command on an item held in the inventory, the item id is
\* absent from the inventory and present in the current scene's item map.
C16_DropTransfers ==
    [][ (/\ CommandStep
         /\ Get(turn'.command, "action", "") = "drop"
         /\ InList(Get(turn'.command, "target", ""), inventory))
            => /\ ~ InList(turn'.command.target, inventory')
               /\ InList(turn'.command.target, scene_items'[current_scene]) ]_vars

-----------------------------------------------------------------------------
(* C17 *)

\* the actions of the Command variant
CommandActions ==
    { "look", "examine", "go", "take", "use", "talk", "inventory", "drop", "eat", "drink",
      "push", "pull", "search", "open", "close", "trigger_event", "invalid" }

\* C17: for every input, context and backend outcome, parse returns a command
\* whose action is one of the seventeen actions of the Command variant.
C17_ActionsClosed ==
    (session = "parse" /\ ret # EmptyDict /\ ret.by = "parse")
        => /\ "action" \in DOMAIN ret.value
           /\ ret.value.action \in CommandActions

-----------------------------------------------------------------------------
(* C18 *)

\* C18: the read accessors leave scene and player state unchanged, so that a
\* turn dispatching the look or the inventory command changes no game state.
C18_LookInventoryInert ==
    [][ (CommandStep /\ Get(turn'.command, "action", "") \in {"look", "inventory"})
            => UNCHANGED game_state ]_vars

-----------------------------------------------------------------------------
(* C19 *)

\* the spinner threads that have not ended
AliveThreads == { i \in 1..Len(spinner.threads) : spinner.threads[i] # "done" }

\* the loop is outside the window between start() and the return of stop():
\* at the prompt, in process_command, or at the apology
OutsideSpinning == spinner.pc \in {"input", "dispatch", "apology"}

\* the main thread is inside stop()
InStop == spinner.pc \in {"stop", "join", "clear"}

\* a spinner thread writes a frame in this step
FrameWritten ==
    \E i \in 1..Len(spinner.threads) :
        spinner.threads[i] = "write" /\ spinner'.threads[i] = "sleep"

\* C19: in every turn the spinner is fully stopped, its thread joined, before
\* anything of the turn's result is rendered, on the normal path and on the
\* exception path; after stop() returns no spinner thread writes; at no time
\* is more than one spinner thread alive; and stop() always returns.
C19_SpinnerStopped ==
    /\ [](session = "spinner"
              => /\ OutsideSpinning => (AliveThreads = {} /\ ~ spinner.running)
                 /\ Cardinality(AliveThreads) <= 1)
    /\ [][ (session = "spinner" /\ FrameWritten) => ~ OutsideSpinning ]_vars
    /\ ((session = "spinner" /\ InStop) ~> ~ InStop)

\* on a terminal, in the second turn: process_command raised after the spinner
\* was stopped, the second stop() returned at once, and the apology is about to
\* be rendered with both threads ended
C19_Witness ==
    /\ session = "spinner"
    /\ spinner.interactive
    /\ spinner.turns = 2
    /\ spinner.pc = "apology"
    /\ spinner.last = "result"
    /\ spinner.threads = <<"done", "done">>
    /\ ~ spinner.running

-----------------------------------------------------------------------------
(* C20 *)

\* the position of a held id in a list of ids (0 when it is not there)
PositionIn(inv, item_id) ==
    IF InList(item_id, inv)
    THEN CHOOSE i \in 1..Len(inv) : inv[i] = item_id /\ \A j \in 1..(i - 1) : inv[j] # item_id
    ELSE 0

\* no id occurs twice in the list
NoDuplicates(inv) ==
    \A i, j \in 1..Len(inv) : inv[i] = inv[j] => i = j

\* the ids the two lists share stand in the same relative order in both
SameRelativeOrder(before, after) ==
    \A a, b \in Range(before) \cap Range(after) :
        PositionIn(before, a) < PositionIn(before, b)
            => PositionIn(after, a) < PositionIn(after, b)

\* C20: in every reachable state the player inventory holds each item id at
\* most once, and no step of a running game (take, event items_add, dialogue
\* give_item, or any other command) changes the relative order of the ids
\* already held: they all stay, in the order they had.
C20_InventoryUniqueOrdered ==
    /\ [] NoDuplicates(inventory)
    /\ [][ (session = "running" /\ session' = "running")
              => /\ Range(inventory) \subseteq Range(inventory')
                 /\ SameRelativeOrder(inventory, inventory') ]_vars

\* a game in which the elder gave the token, the gem and the key were added
\* after it, and the turn just taken had the elder give the gem again while it
\* stood in the middle of the inventory
C20_Witness ==
    /\ session = "running"
    /\ inventory = <<"token", "gem", "key">>
    /\ turn.kind = "command"
    /\ Get(turn.command, "action", "") = "talk"
    /\ Rendered(turn, "* Elder gives you the Gem.")

-----------------------------------------------------------------------------
(* C21 *)

\* the step is a go whose target names, ignoring case, a visible exit of the
\* current scene that leads to a scene id that is not loaded
GoesToUnloaded ==
    /\ CommandStep
    /\ Get(turn'.command, "action", "") = "go"
    /\ \E i \in 1..Len(SceneData(current_scene).exits) :
           LET e == SceneData(current_scene).exits[i]
           IN  /\ Lower(e.k) = Lower(Get(turn'.command, "target", ""))
               /\ ~ (Get(e.v, "hidden", FALSE) /\ e.k \notin revealed_objects[current_scene])
               /\ Get(e.v, "target", "None") \notin SceneIds

\* the step applies an event of the current scene (its message is rendered)
\* whose change_scene names a scene id that is not loaded
EventToUnloaded ==
    /\ CommandStep
    /\ \E i \in 1..Len(SceneData(current_scene).events) :
           LET e == SceneData(current_scene).events[i].v
           IN  /\ "change_scene" \in DOMAIN e
               /\ e.change_scene \notin SceneIds
               /\ "message" \in DOMAIN e
               /\ Rendered(turn', e.message)

\* C21: the session enters the running state only from a game directory whose
\* manifest loaded and whose starting scene id is a loaded scene, and it starts
\* in that scene; whenever the session is running the current scene is one of
\* the loaded scenes; and a go or an event change_scene that names an unloaded
\* scene id leaves the current scene as it was.
C21_LoadedScenesOnly ==
    /\ [](session = "running" => current_scene \in SceneIds)
    /\ [][ (session # "running" /\ session' = "running")
              => /\ game_dir.game_file = "ok"
                 /\ game_dir.starting_scene \in SceneIds
                 /\ current_scene' = game_dir.starting_scene ]_vars
    /\ [][ (GoesToUnloaded \/ EventToUnloaded) => current_scene' = current_scene ]_vars

\* in the library the event lost, whose change_scene names the attic, was
\* applied: its message is rendered and the player is still in the library
C21_Witness ==
    /\ session = "running"
    /\ current_scene = "library"
    /\ turn.kind = "command"
    /\ Rendered(turn, "The floor gives way.")

-----------------------------------------------------------------------------
(* C22 *)

\* the number a line typed at the dialogue menu stands for; -1 for a line that
\* is blank or no number
TypedNumber(line) ==
    CASE line = "1" -> 1
      [] line \in {"2", " 2 "} -> 2
      [] line = "3" -> 3
      [] line = "0" -> 0
      [] OTHER -> -1

\* the step is a talk turn that showed a dialogue menu and read a line that is
\* blank, no number, less than 1, or greater than the number of options shown
InvalidChoiceStep ==
    /\ CommandStep
    /\ Get(turn'.command, "action", "") = "talk"
    /\ \E i \in 1..Len(turn'.out) :
           /\ turn'.out[i].via = "dialogue"
           /\ \/ TypedNumber(turn'.choice) < 1
              \/ TypedNumber(turn'.choice) > Len(turn'.out[i].options)

\* C22: a talk turn whose choice is invalid (blank, not a number, less than 1,
\* or greater than the number of options shown) renders no option's response,
\* applies no option action, leaves the flags, the inventory and the rest of
\* the game state as they were, and the session goes on.
C22_InvalidChoiceAborts ==
    [][ InvalidChoiceStep
            => /\ \A co \in DeclaredOptions : ~ Chose(turn', co)
               /\ flags' = flags
               /\ inventory' = inventory
               /\ UNCHANGED game_state
               /\ session' = "running"
               /\ game_running' ]_vars

\* in the hall the elder showed two options and the player typed 3: the index
\* is out of range, the turn ends in the loop's except clause, nothing changed
C22_Witness ==
    /\ session = "running"
    /\ game_running
    /\ turn.kind = "command"
    /\ Get(turn.command, "action", "") = "talk"
    /\ turn.choice = "3"
    /\ \E i \in 1..Len(turn.out) :
           turn.out[i].via = "dialogue" /\ Len(turn.out[i].options) = 2
    /\ turn.raised = "IndexError"
    /\ flags = {}
    /\ inventory = <<>>

-----------------------------------------------------------------------------
(* C23 *)

\* check_events and the trigger_event command were both called, from the same
\* state, for the same event: the command names the event by its id, the call
\* of check_events carries the event's trigger text, and no event declared
\* before it has the same trigger text ignoring case
SameEventBothWays ==
    /\ session = "events"
    /\ {"check_events", "trigger_event"} \subseteq DOMAIN ret
    /\ args.target = ""
    /\ args.indirect_target = ""
    /\ \E i \in 1..Len(SceneData(args.scene).events) :
           LET e == SceneData(args.scene).events[i]
           IN  /\ e.k = args.event_id
               /\ e.v.trigger = args.action
               /\ \A j \in 1..(i - 1) :
                      Lower(SceneData(args.scene).events[j].v.trigger) # Lower(e.v.trigger)

\* the event both calls are about
CalledEvent == Lookup(SceneData(args.scene).events, args.event_id)

\* the state S holds the flags, inventory and scene the calls started from
AsCalled(S) ==
    /\ S.flags = args.player_flags
    /\ S.inventory = args.inventory
    /\ S.current_scene = args.scene

\* C23: an event reached from the same state through check_events (by its
\* trigger text) and through trigger_event (by its id) is applied the same way:
\* when its condition fails both render "Nothing happens." and change nothing;
\* when it holds both end with the same flags, the same inventory, holding
\* every items_add entry, and the same current scene.
C23_EventPathsAgree ==
    SameEventBothWays
        => LET by_trigger == ret.check_events.st
               by_id == ret.trigger_event
           IN  IF ~ ConditionMet(Get(CalledEvent, "condition", EmptyDict), args.player_flags)
               THEN /\ Rendered(by_trigger, "Nothing happens.")
                    /\ Rendered(by_id, "Nothing happens.")
                    /\ AsCalled(by_trigger)
                    /\ AsCalled(by_id)
               ELSE /\ by_trigger.flags = by_id.flags
                    /\ by_trigger.inventory = by_id.inventory
                    /\ Range(Get(CalledEvent, "items_add", <<>>)) \subseteq Range(by_id.inventory)
                    /\ by_trigger.current_scene = by_id.current_scene

-----------------------------------------------------------------------------
(* C24 *)

\* the ids of the item registry among the ids of a list, in list order
KnownItems(items) ==
    LET Known(id) == HasKey(ItemRegistry, id) IN SelectSeq(items, Known)

\* C24: in the quill engine, whose dispatcher has the trigger_event branch, a
\* trigger_event command with event id E applies the event stored under key E
\* of the current scene's event map, whatever its trigger text: its message is
\* rendered, its flags are set, its items_add ids of the item registry are
\* held, and the scene is its change_scene if that scene is loaded.  If E's
\* condition is false for the player's flags, or E is no event of the current
\* scene, the flags, the inventory and the current scene stay as they were.
C24_TriggerById ==
    (session = "events" /\ "trigger_event" \in DOMAIN ret)
        => LET after == ret.trigger_event
               events == SceneData(args.scene).events
           IN  IF /\ HasKey(events, args.event_id)
                  /\ ConditionMet(Get(Lookup(events, args.event_id), "condition", EmptyDict),
                                  args.player_flags)
               THEN LET E == Lookup(events, args.event_id)
                        NotHeld(id) == ~ InList(id, args.inventory)
                    IN  /\ "message" \in DOMAIN E => Rendered(after, E.message)
                        /\ after.flags = args.player_flags \cup Range(Get(E, "flags_set", <<>>))
                        /\ after.inventory =
                               args.inventory
                                   \o SelectSeq(KnownItems(Get(E, "items_add", <<>>)), NotHeld)
                        /\ after.current_scene =
                               IF "change_scene" \in DOMAIN E /\ E.change_scene \in SceneIds
                               THEN E.change_scene ELSE args.scene
               ELSE AsCalled(after)

\* the command named creak_again, whose trigger text "PULL CHAIN" check_event
\* never reaches because creak is declared before it with the same text: the
\* event was applied all the same
C24_Witness ==
    /\ session = "events"
    /\ "trigger_event" \in DOMAIN ret
    /\ args.event_id = "creak_again"
    /\ args.action = "pull"
    /\ args.player_flags = {}
    /\ Rendered(ret.trigger_event, "Again.")
    /\ ret.trigger_event.flags = {"fell"}

-----------------------------------------------------------------------------
(* C25 *)

\* the candidate trigger strings of a call, in the order claimed, each without
\* the blanks an empty target or indirect target leaves at its ends
Candidates ==
    << Strip(args.action),
       Strip(args.action \o " " \o args.target),
       Strip(args.action \o " " \o args.target \o " on " \o args.indirect_target) >>

\* the positions, in declaration order, of the events of the scene whose
\* trigger equals the text ignoring letter case and whose condition holds
Firing(text) ==
    LET events == SceneData(args.scene).events
    IN  { i \in 1..Len(events) :
              /\ Lower(Get(events[i].v, "trigger", "")) = Lower(text)
              /\ ConditionMet(Get(events[i].v, "condition", EmptyDict), args.player_flags) }

\* the state S is what applying the event E to the state of the call, and
\* nothing else, leaves: E's message, E's flags, E's items, E's scene change
AppliedOnly(S, E) ==
    LET NotHeld(id) == ~ InList(id, args.inventory)
    IN  /\ Rendered(S, Get(E, "message", ""))
        /\ S.flags = args.player_flags \cup Range(Get(E, "flags_set", <<>>))
        /\ S.inventory = args.inventory \o SelectSeq(Get(E, "items_add", <<>>), NotHeld)
        /\ S.current_scene = IF "change_scene" \in DOMAIN E /\ E.change_scene \in SceneIds
                             THEN E.change_scene ELSE args.scene

\* C25: check_events(action, target, indirect) tries the candidates "<verb>",
\* "<verb> <target>", "<verb> <target> on <indirect>" in this order and applies
\* only the first candidate that equals, ignoring case, a declared trigger
\* whose condition holds: it returns true and the state is that of the one
\* event applied, whatever later candidates match; when no candidate matches
\* it returns false, renders nothing and changes nothing.
C25_CandidateOrder ==
    (session = "events" /\ "check_events" \in DOMAIN ret)
        => LET matching == {c \in 1..3 : Firing(Candidates[c]) # {}}
               after == ret.check_events.st
           IN  IF matching = {}
               THEN /\ ~ ret.check_events.hit
                    /\ after = CallState
               ELSE LET c == CHOOSE x \in matching : \A y \in matching : x <= y
                        i == CHOOSE x \in Firing(Candidates[c]) :
                                 \A y \in Firing(Candidates[c]) : x <= y
                    IN  /\ ret.check_events.hit
                        /\ AppliedOnly(after, SceneData(args.scene).events[i].v)

\* check_events("pull", "chain", "hook") with met_elder held: all three
\* candidates match (rumble, creak, hook) and only rumble, the event of the
\* bare verb, was applied
C25_Witness ==
    /\ session = "events"
    /\ "check_events" \in DOMAIN ret
    /\ args.action = "pull"
    /\ args.target = "chain"
    /\ args.indirect_target = "hook"
    /\ args.player_flags = {"met_elder"}
    /\ args.inventory = <<>>
    /\ \A c \in 1..3 : Firing(Candidates[c]) # {}
    /\ ret.check_events.hit
    /\ ret.check_events.st.flags = {"met_elder", "searched_desk"}
    /\ ret.check_events.st.inventory = <<>>

-----------------------------------------------------------------------------
(* C26 *)

\* C26: Scene.check_event(trigger, flags) returns an event only if the event's
\* declared trigger equals the input ignoring letter case and its condition
\* holds for the flags; it returns no event when no declared event is such;
\* and of several such events it returns the one declared first.
C26_CheckEvent ==
    (session = "events" /\ "check_event" \in DOMAIN ret)
        => IF Firing(args.action) = {}
           THEN ret.check_event.event_id = "None"
           ELSE LET i == CHOOSE x \in Firing(args.action) :
                             \A y \in Firing(args.action) : x <= y
                IN  ret.check_event.event_id = SceneData(args.scene).events[i].k

\* check_event("PULL CHAIN"): creak ("pull chain") and creak_again
\* ("PULL CHAIN") both match; creak, declared first, is returned
C26_Witness ==
    /\ session = "events"
    /\ "check_event" \in DOMAIN ret
    /\ args.action = "PULL CHAIN"
    /\ Cardinality(Firing(args.action)) = 2
    /\ ret.check_event.event_id = "creak"

-----------------------------------------------------------------------------
(* C27 *)

\* the positions of the exits of the current scene that are visible now (not
\* hidden, or revealed) and whose name equals the text ignoring letter case
VisibleExitsNamed(text) ==
    LET exits == SceneData(current_scene).exits
    IN  { i \in 1..Len(exits) :
              /\ ~ (Get(exits[i].v, "hidden", FALSE)
                        /\ exits[i].k \notin revealed_objects[current_scene])
              /\ Lower(exits[i].k) = Lower(text) }

\* the lock predicate of an exit of the current scene: the exit has a
\* locked_exits entry whose condition holds for the player's flags
ExitLockHolds(exit_name) ==
    LET locks == SceneData(current_scene).locked_exits
    IN  /\ HasKey(locks, exit_name)
        /\ ConditionMet(Get(Lookup(locks, exit_name), "condition", EmptyDict), flags)

\* C27: a go turn changes the current scene only through an exit that is
\* visible now and whose name equals the target ignoring letter case.  When no
\* visible exit is named so (the exit is hidden and not revealed, or there is
\* none) the turn reports that it cannot be seen and the scene stays; when the
\* lock predicate of the exit named holds, the lock message is rendered and
\* the scene stays; otherwise the scene stays or becomes the exit's target.
C27_GoThroughVisibleExit ==
    [][ (CommandStep /\ Get(turn'.command, "action", "") = "go")
            => LET target == Get(turn'.command, "target", "")
                   exits == SceneData(current_scene).exits
                   named == VisibleExitsNamed(target)
               IN  IF named = {}
                   THEN /\ current_scene' = current_scene
                        /\ Rendered(turn', "There's no '" \o target \o "' that you can see.")
                   ELSE LET i == CHOOSE x \in named : \A y \in named : x <= y
                        IN  IF ExitLockHolds(exits[i].k)
                            THEN /\ current_scene' = current_scene
                                 /\ Rendered(turn',
                                        Get(Lookup(SceneData(current_scene).locked_exits,
                                                   exits[i].k),
                                            "message", "That way is locked."))
                            ELSE current_scene' \in {current_scene, Get(exits[i].v, "target", "")}
      ]_vars

\* in the hall, before the desk revealed the trapdoor, the player typed
\* go trapdoor: the hidden exit is not traversed
C27_Witness ==
    /\ session = "running"
    /\ current_scene = "hall"
    /\ "trapdoor" \notin revealed_objects["hall"]
    /\ turn.kind = "command"
    /\ turn.command = [action |-> "go", target |-> "trapdoor"]
    /\ Rendered(turn, "There's no 'trapdoor' that you can see.")

-----------------------------------------------------------------------------
(* C28 *)

\* C28: a go through a visible exit whose lock predicate does not hold and
\* whose target scene id is not loaded renders the error that the scene was
\* not found, leaves the current scene and the rest of the game state as they
\* were, and the session goes on.
C28_DanglingExit ==
    [][ (/\ GoesToUnloaded
         /\ \A i \in VisibleExitsNamed(Get(turn'.command, "target", "")) :
                ~ ExitLockHolds(SceneData(current_scene).exits[i].k))
            => /\ \E i \in VisibleExitsNamed(Get(turn'.command, "target", "")) :
                      Rendered(turn', "Error: Scene '"
                                      \o Get(SceneData(current_scene).exits[i].v, "target", "None")
                                      \o "' not found.")
               /\ UNCHANGED game_state
               /\ turn'.raised = ""
               /\ session' = "running"
               /\ game_running' ]_vars

\* in the hall the player typed go north: the exit is visible and not locked,
\* its target attic is not loaded; the error is rendered, the player is still
\* in the hall and the loop goes on
C28_Witness ==
    /\ session = "running"
    /\ game_running
    /\ current_scene = "hall"
    /\ turn.kind = "command"
    /\ turn.command = [action |-> "go", target |-> "north"]
    /\ Rendered(turn, "Error: Scene 'attic' not found.")

-----------------------------------------------------------------------------
(* C29 *)

\* the item of the current scene a take of the text resolves to: the id equal
\* to the text if the scene holds it, else the first id the scene holds whose
\* name in the scene's item map equals the text ignoring letter case; "" when
\* there is none
ResolvedItem(text) ==
    LET items == scene_items[current_scene]
        declared == SceneData(current_scene).items
        named == { i \in 1..Len(items) :
                       Lower(Get(Lookup(declared, items[i]), "name", "")) = Lower(text) }
    IN  IF InList(text, items) THEN text
        ELSE IF named = {} THEN ""
        ELSE items[CHOOSE i \in named : \A j \in named : i <= j]

\* the item may be taken: it is in the item registry, it is takeable, and the
\* condition of its locked_items entry, if it has one, does not hold
MayBeTaken(item_id) ==
    LET locks == SceneData(current_scene).locked_items
    IN  /\ item_id # ""
        /\ HasKey(ItemRegistry, item_id)
        /\ Get(Lookup(ItemRegistry, item_id), "takeable", TRUE)
        /\ ~ (/\ HasKey(locks, item_id)
              /\ ConditionMet(Get(Lookup(locks, item_id), "condition", EmptyDict), flags))

\* C29: a take turn resolves its target, by id or by name ignoring letter
\* case, among the items the current scene holds, and moves the item into the
\* inventory and out of the scene's item map only if the item is in the item
\* registry, is takeable and its lock condition does not hold; in every other
\* case the inventory and every scene's item map are as they were.
C29_TakeGuards ==
    [][ (CommandStep /\ Get(turn'.command, "action", "") = "take")
            => LET item_id == ResolvedItem(Get(turn'.command, "target", ""))
                   Other(id) == id # item_id
               IN  IF MayBeTaken(item_id)
                   THEN /\ inventory' = IF InList(item_id, inventory) THEN inventory
                                        ELSE Append(inventory, item_id)
                        /\ scene_items' =
                               [scene_items EXCEPT ![current_scene] = SelectSeq(@, Other)]
                   ELSE /\ inventory' = inventory
                        /\ scene_items' = scene_items ]_vars

\* in the hall the player typed take brass key: the key, named "Brass Key" in
\* the scene's item map, was resolved by name and moved into the inventory
C29_Witness ==
    /\ session = "running"
    /\ current_scene = "hall"
    /\ turn.kind = "command"
    /\ turn.command = [action |-> "take", target |-> "brass key"]
    /\ inventory = <<"key">>
    /\ scene_items["hall"] = <<"statue", "gem">>

-----------------------------------------------------------------------------
\* Claim C30: using a held item

\* the key of the effect a use turn looks up: use_on_<indirect target>, or use
UseEffectKey(command) ==
    IF Get(command, "indirect_target", "") # ""
    THEN "use_on_" \o Get(command, "indirect_target", "")
    ELSE "use"

\* the trigger of the scene event a use turn falls back to
UseTrigger(command) ==
    IF Get(command, "indirect_target", "") # ""
    THEN "use " \o Get(command, "target", "") \o " on " \o Get(command, "indirect_target", "")
    ELSE "use " \o Get(command, "target", "")

\* the message of a use turn that found neither an effect nor an event
UseFailure(command) ==
    IF Get(command, "indirect_target", "") # ""
    THEN "You can't use the " \o Get(command, "target", "") \o " on the "
             \o Get(command, "indirect_target", "") \o " like that."
    ELSE "You're not sure how to use the " \o Get(command, "target", "") \o " here."

\* the step is a use turn of the quill engine whose item is held and is in the
\* item registry
UseHeldStep ==
    /\ CommandStep
    /\ variant = "quill"
    /\ Get(turn'.command, "action", "") = "use"
    /\ Player_has_item(inventory, Get(turn'.command, "target", ""))
    /\ HasKey(ItemRegistry, Get(turn'.command, "target", ""))

\* C30: a use turn with the item held: if the item defines the effect
\* use_on_<target> (use for a bare use), the effect's message is rendered and
\* every flag of its flags_set is among the flags afterwards; otherwise the
\* scene event with the trigger "use <item> on <target>" ("use <item>") whose
\* condition holds is applied; only when neither exists is failure reported,
\* with the state unchanged.
C30_UseHeldItem ==
    [][ UseHeldStep
            => LET command == turn'.command
                   item == Lookup(ItemRegistry, Get(command, "target", ""))
                   effects == Get(item, "effects", EmptyDict)
                   effect == effects[UseEffectKey(command)]
                   r == check_events(EngineState, UseTrigger(command), "", "")
               IN  IF UseEffectKey(command) \in DOMAIN effects
                   THEN /\ Rendered(turn', Get(effect, "message", ""))
                        /\ Range(Get(effect, "flags_set", <<>>)) \subseteq flags'
                   ELSE IF r.hit
                   THEN /\ flags' = r.st.flags
                        /\ inventory' = r.st.inventory
                        /\ current_scene' = r.st.current_scene
                   ELSE /\ Rendered(turn', UseFailure(command))
                        /\ UNCHANGED <<current_scene, inventory, flags, scene_items,
                                       revealed_objects>> ]_vars

-----------------------------------------------------------------------------
\* Claim C31: examining an item in hand

\* the step is an examine turn of the quill engine
ExamineStep ==
    /\ CommandStep
    /\ variant = "quill"
    /\ Get(turn'.command, "action", "") = "examine"

\* the target of the examine turn is no object of the scene, is held, and its
\* item defines examination text
ExaminesHeldItem ==
    LET target == Get(turn'.command, "target", "")
    IN  /\ ~ Scene_has_object(SceneData(current_scene), target)
        /\ Player_has_item(inventory, target)
        /\ HasKey(ItemRegistry, target)
        /\ "examination" \in DOMAIN Lookup(ItemRegistry, target)

\* the message of an examine turn that found nothing
NotSeen(target) == "You don't see any '" \o target \o "' here."

\* C31: an examine turn whose target is no scene object but an item in hand
\* that defines examination text renders that text and reports no error; an
\* examine turn whose target is neither reports "not found"; in both cases
\* the game state is unchanged.
C31_ExamineHeldItem ==
    [][ (ExamineStep /\ ~ Scene_has_object(SceneData(current_scene),
                                           Get(turn'.command, "target", "")))
            => LET target == Get(turn'.command, "target", "")
               IN  /\ IF ExaminesHeldItem
                      THEN /\ Rendered(turn', Lookup(ItemRegistry, target).examination.text)
                           /\ turn'.raised = ""
                           /\ \A i \in 1..Len(turn'.out) : turn'.out[i].via # "print_error"
                      ELSE Rendered(turn', NotSeen(target))
                   /\ UNCHANGED <<current_scene, inventory, flags, scene_items,
                                  revealed_objects>> ]_vars

-----------------------------------------------------------------------------
\* Claim C32: the secondary handlers look for an event first

\* a secondary handler was called with a target and has returned
HandlerReturned ==
    /\ session = "handlers"
    /\ ret # EmptyDict
    /\ args.action \in SecondaryVerbs
    /\ args.target # ""

\* the index of the event of the scene whose trigger is "<verb> <target>" and
\* whose condition holds, 0 if there is none
VerbEvent ==
    Scene_check_event(SceneData(args.scene), args.action \o " " \o args.target,
                      args.player_flags)

\* the handler changed nothing and rendered one message, an error
OnlyRefused ==
    /\ [ret EXCEPT !.out = <<>>] = CallState
    /\ Len(ret.out) = 1
    /\ ret.out[1].via = "print_error"

\* C32: each secondary handler (eat, drink, push, pull, search, open, close)
\* looks for the event "<verb> <target>" first: a declared event with that
\* trigger whose condition holds is applied whether or not the target is an
\* object of the scene or an item in hand; when no event matches, the handler
\* renders a "can't do that" or "don't see that" message (a search of an
\* object of the scene goes on to search it).
C32_EventLookupFirst ==
    HandlerReturned
        => IF VerbEvent # 0
           THEN ret = ApplyEvent(CallState, SceneData(args.scene).events[VerbEvent].v)
           ELSE \/ args.action = "search" /\ Scene_has_object(SceneData(args.scene), args.target)
                \/ OnlyRefused

-----------------------------------------------------------------------------
\* Claim C33: search

\* the search handler was called and has returned
SearchReturned ==
    /\ session = "handlers"
    /\ ret # EmptyDict
    /\ args.action = "search"

\* a search without a target for which no event "search" fires renders the
\* scene again and leaves the state as it was
BareSearchRendersScene ==
    (/\ args.target = ""
     /\ Scene_check_event(SceneData(args.scene), "search", args.player_flags) = 0)
        => /\ [ret EXCEPT !.out = <<>>] = CallState
           /\ Len(ret.out) = 1
           /\ ret.out[1].via = "scene"
           /\ ret.out[1].name = SceneData(args.scene).name

\* everything the object searched reveals is revealed and every flag it sets is set
SearchedObjectRevealed ==
    LET obj_data == Lookup(SceneData(args.scene).objects, args.target)
    IN  /\ Range(Get(obj_data, "reveals", <<>>)) \subseteq ret.revealed_objects[args.scene]
        /\ Range(Get(obj_data, "flags_set", <<>>)) \subseteq ret.flags

\* C33 as stated: search with no target performs the event check for "search"
\* and, when no event fires, renders the scene again without changing state;
\* search with a target that is an object of the scene triggers hidden-object
\* revelation for that target: afterwards every name of the object's reveals
\* list is in the scene's revealed_objects and every flag of its flags_set is
\* among the player's flags.
C33_SearchReveals ==
    SearchReturned
        => /\ BareSearchRendersScene
           /\ (args.target # "" /\ Scene_has_object(SceneData(args.scene), args.target))
                  => SearchedObjectRevealed

\* the event check of the search handler for "search <target>"
SearchEvent == check_events(CallState, "search " \o args.target, "", "")

\* C33 as amended: the revelation takes place when the event check for
\* "search <target>" fires no event; when it fires one, that event is applied
\* in place of the revelation.
C33_SearchRevealsAmended ==
    SearchReturned
        => /\ BareSearchRendersScene
           /\ (args.target # "" /\ Scene_has_object(SceneData(args.scene), args.target))
                  => IF SearchEvent.hit THEN ret = SearchEvent.st
                     ELSE SearchedObjectRevealed

\* the crate of the vault was searched while no event fired: the hatch is
\* revealed and the crate's flag is set
C33_Witness ==
    /\ SearchReturned
    /\ args.scene = "vault"
    /\ args.target = "crate"
    /\ ~ SearchEvent.hit
    /\ ret.revealed_objects["vault"] = {"hatch"}
    /\ "has_key" \in ret.flags
    /\ ret.out = << [via |-> "typewriter", text |-> "You search the crate. A nailed crate."] >>

-----------------------------------------------------------------------------
\* Claim C34: the split of the input at a preposition

\* the words of the input the parser was called with
InputWords == Split(Lower(args.user_input))

\* _extract_command_parts has returned for an input of more than one word
PartsReturned ==
    /\ session = "parse"
    /\ ret # EmptyDict
    /\ ret.by = "_extract_command_parts"
    /\ Len(InputWords) > 1

\* the positions from lo on at which the input has a preposition
PrepositionsFrom(lo) ==
    {i \in lo..Len(InputWords) :
        InputWords[i] \in {"on", "in", "with", "to", "at", "for", "from", "by", "about"}}

\* the parts of the input split at position k, 0 for no split
SplitAt(k) ==
    IF k = 0
    THEN [action |-> InputWords[1],
          target |-> Join(SubSeq(InputWords, 2, Len(InputWords))),
          indirect |-> ""]
    ELSE [action |-> InputWords[1],
          target |-> Join(SubSeq(InputWords, 2, k - 1)),
          indirect |-> Join(SubSeq(InputWords, k + 1, Len(InputWords)))]

\* the least position of a set of positions, 0 for the empty set
FirstOf(positions) ==
    IF positions = {} THEN 0 ELSE CHOOSE i \in positions : \A j \in positions : i <= j

\* C34 as stated: for an input of more than one word the rule-based parser
\* takes the first word as action token and splits the rest at the first word
\* that is a preposition: the words between the verb and that preposition
\* form the target and all words after it the indirect target (later
\* prepositions stay inside the indirect target); with no preposition all
\* remaining words form the target.
C34_SplitAtFirstPreposition ==
    PartsReturned => ret.value = SplitAt(FirstOf(PrepositionsFrom(2)))

\* C34 as amended: the first word counts as well: when the first word itself
\* is a preposition, the input is split there, the target is empty and all
\* words after the first form the indirect target.
C34_SplitAtFirstPrepositionAmended ==
    PartsReturned => ret.value = SplitAt(FirstOf(PrepositionsFrom(1)))

\* put key in box on shelf: split at in, and on stays inside the indirect target
C34_Witness ==
    /\ PartsReturned
    /\ args.user_input = "put key in box on shelf"
    /\ ret.value = [action |-> "put", target |-> "key", indirect |-> "box on shelf"]

-----------------------------------------------------------------------------
\* Claim C35: an unmapped action token and the exits

\* _rule_based_parse has returned for an input whose first word is in no
\* synonym list
UnmappedReturned ==
    /\ session = "parse"
    /\ ret # EmptyDict
    /\ ret.by = "_rule_based_parse"
    /\ InputWords # <<>>
    /\ canonical_action(InputWords[1]) = ""

\* the visible exits whose name, in lower case, is part of the lowered input
ExitsInInput ==
    {i \in 1..Len(args.exits) : Contains(Lower(args.exits[i].k), Lower(args.user_input))}

\* C35: when the action token maps to no canonical action, the rule-based
\* parser looks for a visible exit whose name is part of the input and returns
\* {action: go, target: that exit}; it returns invalid only when no visible
\* exit name occurs in the input; an exit that is hidden and not revealed is
\* never returned as the target of go.
C35_ExitRecovery ==
    UnmappedReturned
        => /\ IF ExitsInInput # {}
              THEN /\ Get(ret.value, "action", "") = "go"
                   /\ \E i \in ExitsInInput : Get(ret.value, "target", "") = args.exits[i].k
              ELSE Get(ret.value, "action", "") = "invalid"
           /\ Get(ret.value, "action", "") = "go"
                  => \E i \in 1..Len(args.exits) :
                         Get(ret.value, "target", "") = args.exits[i].k

-----------------------------------------------------------------------------
\* Claim C36: revealed_objects is local to its scene and lasts for the session

\* the names of the exits and of the objects scene id shows, given what is revealed
VisibleIn(id, revealed) ==
    [exits |-> Keys(Scene_get_visible_exits(SceneData(id), revealed[id])),
     objects |-> Keys(Scene_get_visible_objects(SceneData(id), revealed[id]))]

\* C36: revealed_objects is scene-local and persists for the session: a turn
\* in scene A changes the revealed names, the visible exits and the visible
\* objects of no other scene, and no turn, a move to another scene and back
\* included, takes away anything that was revealed in a scene.
C36_RevealedSceneLocal ==
    [][ (session = "running" /\ session' = "running")
            => \A id \in SceneIds :
                   /\ id # current_scene
                          => /\ revealed_objects'[id] = revealed_objects[id]
                             /\ VisibleIn(id, revealed_objects') = VisibleIn(id, revealed_objects)
                   /\ revealed_objects[id] \subseteq revealed_objects'[id]
                   /\ Range(VisibleIn(id, revealed_objects).exits)
                          \subseteq Range(VisibleIn(id, revealed_objects').exits)
                   /\ Range(VisibleIn(id, revealed_objects).objects)
                          \subseteq Range(VisibleIn(id, revealed_objects').objects) ]_vars

\* back in the hall from the library: the trapdoor and the drawer the desk
\* revealed before the player left are still shown, and the library shows
\* what it showed
C36_Witness ==
    /\ session = "running"
    /\ current_scene = "hall"
    /\ turn.kind = "command"
    /\ turn.command = [action |-> "go", target |-> "hall_door"]
    /\ revealed_objects["hall"] = {"trapdoor", "drawer"}
    /\ revealed_objects["library"] = {}
    /\ VisibleIn("hall", revealed_objects).exits = <<"library_door", "trapdoor", "north">>
    /\ "drawer" \in Range(VisibleIn("hall", revealed_objects).objects)

-----------------------------------------------------------------------------
\* Claim C37: flags and revealed names only grow

\* the conditions of the world that ask for flags only
HasFlagsConditions ==
    { [has_flags |-> <<"has_key">>], [has_flags |-> <<"met_elder">>],
      [has_flags |-> <<"searched_desk">>], [has_flags |-> <<"fell">>],
      [has_flags |-> <<"searched_desk", "met_elder">>],
      [has_flags |-> <<"searched_desk", "fell">>] }

\* C37: across a session the player's flags and every scene's revealed_objects
\* only grow: no command, event or dialogue action removes a flag or hides a
\* revealed name again, so a condition that asks for has_flags only, once
\* true, stays true for the rest of the session.
C37_FlagsOnlyGrow ==
    [][ (session = "running" /\ session' = "running")
            => /\ flags \subseteq flags'
               /\ \A id \in SceneIds : revealed_objects[id] \subseteq revealed_objects'[id]
               /\ \A c \in HasFlagsConditions :
                      Scene_check_condition(c, flags) => Scene_check_condition(c, flags') ]_vars

\* late in a session, in the cellar: the flags of the lever, of the desk and
\* of the fall are all still set, and so is what the desk revealed in the hall
C37_Witness ==
    /\ session = "running"
    /\ current_scene = "cellar"
    /\ flags = {"has_key", "searched_desk", "fell"}
    /\ revealed_objects["hall"] = {"trapdoor", "drawer"}
    /\ Scene_check_condition([has_flags |-> <<"searched_desk", "fell">>], flags)

-----------------------------------------------------------------------------
\* Claim C38: hidden objects that are not revealed

\* examine or search was called on an object of the scene that is declared
\* hidden and is not revealed
HiddenObjectNamed ==
    /\ session = "handlers"
    /\ ret # EmptyDict
    /\ args.action \in {"examine", "search"}
    /\ HasKey(SceneData(args.scene).objects, args.target)
    /\ Get(Lookup(SceneData(args.scene).objects, args.target), "hidden", FALSE)
    /\ args.target \notin CallState.revealed_objects[args.scene]

\* C38: an object declared hidden whose name is not in the scene's
\* revealed_objects cannot be examined or searched: examine or search naming
\* it reports not-found, renders no description of it, adds nothing to
\* revealed_objects and sets no flag.
C38_HiddenObjectsUnseen ==
    HiddenObjectNamed
        => LET description ==
                   Get(Lookup(SceneData(args.scene).objects, args.target), "description", "")
           IN  /\ \E i \in 1..Len(ret.out) : ret.out[i].via = "print_error"
               /\ \A i \in 1..Len(ret.out) :
                      /\ ret.out[i].text # description
                      /\ ret.out[i].text # "You search the " \o args.target \o ". " \o description
               /\ ret.revealed_objects = CallState.revealed_objects
               /\ ret.flags = args.player_flags

-----------------------------------------------------------------------------
\* Claim C39: one event a turn

\* the messages of the events of the scenes a session visits
EventMessages ==
    UNION { { SceneData(id).events[i].v.message :
                  i \in { n \in 1..Len(SceneData(id).events) :
                              "message" \in DOMAIN SceneData(id).events[n].v } } :
            id \in {"hall", "library", "cellar"} }

\* the lines of the turn that render the message of an event
EventLines(t) ==
    {i \in 1..Len(t.out) : "text" \in DOMAIN t.out[i] /\ t.out[i].text \in EventMessages}

\* C39: in one turn at most one scene event is applied: for a single parsed
\* command the message of an event is rendered at most once, its items are
\* granted at most once, and no second event fires in the same turn.
C39_OneEventPerTurn ==
    [][ CommandStep
            => /\ Cardinality(EventLines(turn')) <= 1
               /\ \A id \in Range(inventory') : Count(inventory', id) = 1
               /\ Cardinality({i \in 1..Len(turn'.out) :
                                  /\ "text" \in DOMAIN turn'.out[i]
                                  /\ turn'.out[i].text = "* You got: Note"}) <= 1 ]_vars

\* soliloquy, key in hand, use key: the event with the trigger "use key" fired
\* in the check made before the dispatch, once, and use_item fired no second
\* event
C39_Witness ==
    /\ session = "running"
    /\ variant = "soliloquy"
    /\ turn.kind = "command"
    /\ turn.command = [action |-> "use", target |-> "key"]
    /\ inventory = <<"key">>
    /\ Cardinality(EventLines(turn)) = 1
    /\ Rendered(turn, "The key glints.")

-----------------------------------------------------------------------------
\* Claim C40: talk to <name> and go to <exit>

\* the step is a turn of the quill engine with the rule-based parser on the line typed
TypedStep(line) ==
    /\ CommandStep
    /\ variant = "quill"
    /\ parser_type = "basic"
    /\ Stripped[turn'.input] = line

\* the turn presented the dialogue of the character named name
DialoguePresented(t, name) ==
    \E i \in 1..Len(t.out) :
        /\ t.out[i].via = "dialogue"
        /\ t.out[i].name = name

\* C40: with the rule-based parser the input "talk to <name>", where a
\* character with that name or id is present in the current scene, reaches the
\* talk handler with that character, and its dialogue is presented; likewise
\* "go to <exit>" for a visible exit reaches the go handler with that exit as
\* its target.
C40_TalkToAndGoTo ==
    [][ /\ (TypedStep("talk to elder") /\ InList("elder", get_characters_in_scene(EngineState)))
            => /\ Get(turn'.command, "action", "") = "talk"
               /\ Get(turn'.command, "target", "") = "elder"
               /\ DialoguePresented(turn', "Elder")
        /\ (/\ TypedStep("go to hall_door")
            /\ HasKey(Scene_get_visible_exits(SceneData(current_scene),
                                              revealed_objects[current_scene]), "hall_door"))
            => /\ turn'.command = [action |-> "go", target |-> "hall_door"]
               /\ current_scene' = "hall" ]_vars

=============================================================================
